---- MODULE Spec2Model ----
(***************************************************************************)
(* Replication Monitoring Engine of hds-rpo: the vendor-session manager    *)
(* (backend/services/sessionManager.js), the poller (services/poller.js,   *)
(* src/unnamed/part_007) and the alert acknowledgement route               *)
(* (routes/alerts.js, src/unnamed/part_004).                               *)
(*                                                                         *)
(* Node.js runs every handler to its next network await without            *)
(* interruption, so one action is one such run: the synchronous prefix of  *)
(* a call up to the request it sends, or the continuation that runs when   *)
(* the response arrives.                                                   *)
(***************************************************************************)
EXTENDS Integers, Sequences, FiniteSets, TLC

\* ------------------------------------------------------------------ bounds
MaxSessions == 2      \* sessions the array hands out in one behaviour
MaxTicks    == 2      \* steps the clock takes in one behaviour

\* --------------------------------------------------------- program constants
DEFAULT_ALIVE_TIME     == 300
RENEWAL_MARGIN_SECONDS == 60
MIN_RENEWAL_SECONDS    == 30

\* the clock advances in steps of twice the renewal margin, up to MaxTime
TickStep == 2 * RENEWAL_MARGIN_SECONDS
MaxTime  == MaxTicks * TickStep

MaxAlerts   == 3      \* rows of table alerts
MaxJournals == 2      \* journal entries in one answer
MaxLdev     == 4      \* largest volume id of a pair on the array
BATCH_SIZE  == 2      \* pairs per page: 500 in the code, scaled down here
MaxSamples  == 3      \* rows of table rpo_history
MaxPages    == 2      \* full pages of pairs one array gives in one call
MaxVolumes  == 2      \* volume metrics in one aggregateGroupRpo call
MaxPoints   == 5      \* qCount readings in one determineTrend call

Endpoints    == {"A", "B"}
StorageOrder == <<"A", "B">>
Invokers     == {"cron", "manual", "initial"}
Groups       == {1}
UsageRates   == {0, 5, 20}
Statuses     == {"SMPL", "PJNN", "PJSF"}
JournalEntries ==
  [cg : Groups, usageRate : UsageRates, journalStatus : Statuses]
JournalLists ==
  UNION {[1..n -> JournalEntries] : n \in 0..MaxJournals}

\* defaults of getThresholds
WarningPercent  == 5
CriticalPercent == 20
Callers   == {"c1", "c2"}

VARIABLES
  \* persistent store, as the engine reads it
  apiConfig,      \* TRUE iff api_config holds a row
  authenticated,  \* [Endpoints -> BOOLEAN]: a usable storage_credentials row
  alerts,         \* the rows of table alerts, in id order
  \* the array
  live,           \* ids of the sessions alive on the array
  nextSid,        \* id the array gives to the next session
  \* sessionManager.js
  sessions,       \* the Map storageDeviceId -> session entry
  timers,         \* pending setTimeout callbacks of scheduleRenewal
  calls,          \* getSession calls waiting for createSession
  renewals,       \* renewSession calls in flight
  now,            \* Date.now() in seconds
  \* poller.js
  cronJob,        \* TRUE iff a cron job is scheduled
  interval,       \* the polling_interval_seconds setting, the job's minutes,
                  \* the number of cron tasks scheduled and not stopped
  isPolling,
  lastPollTime,   \* NoTime for null
  lastPollError,
  cyc,            \* pollCycle invocations past the guard, by caller
  \* history
  hist,           \* what the most recent cycle did
  lastOp,         \* the step taken last
  \* hitachiApi.js
  retry,          \* one withRetry call: attempts, answers, waits, outcome
  cleanup,        \* one cleanupAllSessions call and its deleteSession calls
  \* discovery.js
  pager,          \* one discoverPairs call and the pairs the array holds
  db,             \* the consistency_groups and cg_volumes tables
  disc,           \* one runFullDiscovery call
  \* poller.js, one array in detail
  ps,             \* one pollStorage call
  rpo,            \* the rows of table rpo_history, in id order
  \* discovery.js, one array in detail
  grp,            \* the journals and pairs of one group, and what is derived
  dcg,            \* one discoverConsistencyGroups call
  \* rpoCalculator.js
  calc,           \* one call of a function of the calculator
  \* sessionManager.js, destroySession
  destroy,        \* one destroySession call
  \* server.js
  proc            \* "running", "closing" (server.close called) or "exited"

envVars   == <<apiConfig, authenticated>>
arrVars   == <<live, nextSid>>
cacheVars == <<sessions, timers>>
callVars  == <<calls, renewals>>
smVars    == <<live, nextSid, sessions, timers, calls, renewals>>
pollVars  == <<cronJob, interval, isPolling, lastPollTime, lastPollError, cyc,
               hist>>
vars      == <<apiConfig, authenticated, alerts, live, nextSid, sessions, timers,
               calls, renewals, now, cronJob, interval, isPolling, lastPollTime,
               lastPollError, cyc, hist, lastOp, retry, cleanup, proc,
               pager, db, disc, ps, rpo, grp, dcg, calc, destroy>>
extVars   == <<ps, rpo, grp, dcg, calc, destroy>>
auxVars   == <<retry, cleanup, proc, pager, db, disc, extVars>>

NoSession == [sessionId |-> 0, createdAt |-> 0, aliveTime |-> 0, renewalTimer |-> 0]

IdleCall  == [pc |-> "idle", e |-> "-"]

Max(a, b) == IF a >= b THEN a ELSE b

Op(o, e, s, a) == [op |-> o, e |-> e, sid |-> s, arg |-> a]

\* ------------------------------------------------------- sessionManager.js

RenewInSeconds_NoMargin(aliveTime) ==
  Max(aliveTime - MIN_RENEWAL_SECONDS, MIN_RENEWAL_SECONDS)

\* delay of the renewal timer, in seconds
RenewInSeconds(aliveTime) ==
  Max(aliveTime - RENEWAL_MARGIN_SECONDS, MIN_RENEWAL_SECONDS)

CacheHit_NoMargin(e) ==
  /\ sessions[e] # NoSession
  /\ now - sessions[e].createdAt < sessions[e].aliveTime

\* getSession's test on the cached entry
CacheHit(e) ==
  /\ sessions[e] # NoSession
  /\ now - sessions[e].createdAt < sessions[e].aliveTime - RENEWAL_MARGIN_SECONDS

\* clearTimeout
ClearTimeout(tms, id) == {t \in tms : t.id # id}

\* sessions.set(e, {...}) followed by scheduleRenewal(e): the new entry has no
\* timer yet, so scheduleRenewal clears nothing and arms one timer for it
StoreSession(e, sid) ==
  LET entry == [sessionId |-> sid, createdAt |-> now,
                aliveTime |-> DEFAULT_ALIVE_TIME, renewalTimer |-> 0]
      cleared == IF entry.renewalTimer # 0
                 THEN ClearTimeout(timers, entry.renewalTimer) ELSE timers
  IN /\ sessions' = [sessions EXCEPT ![e] = [entry EXCEPT !.renewalTimer = sid]]
     /\ timers' = cleared \cup
          {[id |-> sid, e |-> e, at |-> now,
            due |-> now + RenewInSeconds(entry.aliveTime)]}

StartOutcome_NoCredsCheck(e) ==
  IF CacheHit(e) THEN "getSessionHit"
  ELSE IF ~apiConfig THEN "getSessionNoConfig"
  ELSE "getSessionCreate"

\* what getSession does before its first await
StartOutcome(e) ==
  IF CacheHit(e) THEN "getSessionHit"
  ELSE IF ~apiConfig THEN "getSessionNoConfig"
  ELSE IF ~authenticated[e] THEN "getSessionNoCreds"
  ELSE "getSessionCreate"

CallAfterStart(e) ==
  IF StartOutcome(e) = "getSessionCreate"
  THEN [pc |-> "creating", e |-> e] ELSE IdleCall

\* getSession up to its first await
GetSessionStart(c, e) ==
  /\ calls[c].pc = "idle"
  /\ calls' = [calls EXCEPT ![c] = CallAfterStart(e)]
  /\ lastOp' = Op(StartOutcome(e), e,
                  IF CacheHit(e) THEN sessions[e].sessionId ELSE 0, 0)
  /\ UNCHANGED <<live, nextSid, sessions, timers, renewals, now, envVars>>
  /\ UNCHANGED <<pollVars, alerts>>
  /\ UNCHANGED auxVars

\* createSession answered: the entry is stored and its renewal scheduled
GetSessionCreated(c) ==
  /\ calls[c].pc = "creating"
  /\ nextSid <= MaxSessions
  /\ LET e == calls[c].e IN
       /\ live' = live \cup {nextSid}
       /\ nextSid' = nextSid + 1
       /\ StoreSession(e, nextSid)
       /\ lastOp' = Op("getSessionNew", e, nextSid, sessions[e])
  /\ calls' = [calls EXCEPT ![c] = IdleCall]
  /\ UNCHANGED <<renewals, now, envVars>>
  /\ UNCHANGED <<pollVars, alerts>>
  /\ UNCHANGED auxVars

\* createSession failed after its retries: getSession throws
GetSessionFailed(c) ==
  /\ calls[c].pc = "creating"
  /\ calls' = [calls EXCEPT ![c] = IdleCall]
  /\ lastOp' = Op("getSessionFail", calls[c].e, 0, 0)
  /\ UNCHANGED <<live, nextSid, sessions, timers, renewals, now, envVars>>
  /\ UNCHANGED <<pollVars, alerts>>
  /\ UNCHANGED auxVars

\* getRemoteSession: Promise.all runs both getSession calls to their await
\* back to back
GetRemoteSessionStart(l, r) ==
  /\ calls["c1"].pc = "idle" /\ calls["c2"].pc = "idle"
  /\ calls' = [c \in Callers |->
                 IF c = "c1" THEN CallAfterStart(l) ELSE CallAfterStart(r)]
  /\ lastOp' = Op("getRemoteSession", l, 0, r)
  /\ UNCHANGED <<live, nextSid, sessions, timers, renewals, now, envVars>>
  /\ UNCHANGED <<pollVars, alerts>>
  /\ UNCHANGED auxVars

EvictOnFailure_Keep(e) == UNCHANGED sessions

\* the catch of the timer callback: a failed renewal evicts the entry
EvictOnFailure(e) == sessions' = [sessions EXCEPT ![e] = NoSession]

\* the renewal timer fires: renewSession up to createSession, or the throw
\* that the timer callback catches by evicting the entry
TimerFire(t) ==
  /\ t \in timers
  /\ now >= t.due
  /\ IF ~apiConfig \/ ~authenticated[t.e]
     THEN /\ EvictOnFailure(t.e)
          /\ lastOp' = Op("renewFailSync", t.e, t.id, t.at)
          /\ UNCHANGED renewals
     ELSE /\ renewals' = renewals \cup
             {[id |-> t.id, e |-> t.e, pc |-> "creating",
               old |-> sessions[t.e].sessionId, new |-> 0]}
          /\ lastOp' = Op("renewStart", t.e, t.id, t.at)
          /\ UNCHANGED sessions
  /\ timers' = timers \ {t}
  /\ UNCHANGED <<live, nextSid, calls, now, envVars>>
  /\ UNCHANGED <<pollVars, alerts>>
  /\ UNCHANGED auxVars

\* createSession of a renewal answered: swap the entry, schedule its renewal,
\* then send the deletion of the old session
RenewCreated(r) ==
  /\ r \in renewals /\ r.pc = "creating"
  /\ nextSid <= MaxSessions
  /\ live' = live \cup {nextSid}
  /\ nextSid' = nextSid + 1
  /\ StoreSession(r.e, nextSid)
  /\ renewals' = (renewals \ {r}) \cup
       (IF r.old # 0
        THEN {[r EXCEPT !.pc = "deleting", !.new = nextSid]} ELSE {})
  /\ lastOp' = Op("renewSwap", r.e, nextSid, r.old)
  /\ UNCHANGED <<calls, now, envVars>>
  /\ UNCHANGED <<pollVars, alerts>>
  /\ UNCHANGED auxVars

\* createSession of a renewal failed: the callback evicts the entry
RenewCreateFailed(r) ==
  /\ r \in renewals /\ r.pc = "creating"
  /\ EvictOnFailure(r.e)
  /\ renewals' = renewals \ {r}
  /\ lastOp' = Op("renewFail", r.e, r.id, 0)
  /\ UNCHANGED <<live, nextSid, timers, calls, now, envVars>>
  /\ UNCHANGED <<pollVars, alerts>>
  /\ UNCHANGED auxVars

\* deleteSession of the old session answered
RenewDeleted(r) ==
  /\ r \in renewals /\ r.pc = "deleting"
  /\ live' = live \ {r.old}
  /\ renewals' = renewals \ {r}
  /\ lastOp' = Op("renewDeleted", r.e, r.new, r.old)
  /\ UNCHANGED <<nextSid, sessions, timers, calls, now, envVars>>
  /\ UNCHANGED <<pollVars, alerts>>
  /\ UNCHANGED auxVars

RenewDeleteFailed_Evicts(r) ==
  /\ r \in renewals /\ r.pc = "deleting"
  /\ renewals' = renewals \ {r}
  /\ sessions' = [sessions EXCEPT ![r.e] = NoSession]
  /\ lastOp' = Op("renewDeleteFailed", r.e, r.new, r.old)
  /\ UNCHANGED <<live, nextSid, timers, calls, now, envVars>>
  /\ UNCHANGED <<pollVars, alerts>>
  /\ UNCHANGED auxVars

\* deleteSession of the old session failed: logged, nothing else
RenewDeleteFailed(r) ==
  /\ r \in renewals /\ r.pc = "deleting"
  /\ renewals' = renewals \ {r}
  /\ lastOp' = Op("renewDeleteFailed", r.e, r.new, r.old)
  /\ UNCHANGED <<live, nextSid, sessions, timers, calls, now, envVars>>
  /\ UNCHANGED <<pollVars, alerts>>
  /\ UNCHANGED auxVars

\* everything but the session manager and the destroySession call
notDestroy == <<envVars, nextSid, calls, renewals, now, alerts, pollVars,
                retry, cleanup, proc, pager, db, disc, ps, rpo, grp, dcg, calc>>

IdleDestroy == [pc |-> "idle", e |-> "-", sid |-> 0]

\* sessions.delete(storageDeviceId)
Removed(e) == [sessions EXCEPT ![e] = NoSession]

\* destroySession(e) up to its await of deleteSession, or to its return when
\* nothing is cached or there is no API configuration
DestroySession(e) ==
  /\ destroy.pc = "idle"
  /\ IF sessions[e] = NoSession
     THEN /\ lastOp' = Op("destroyNothing", e, 0, 0)
          /\ UNCHANGED <<sessions, timers, destroy>>
     ELSE /\ timers' = ClearTimeout(timers, sessions[e].renewalTimer)
          /\ IF apiConfig
             THEN /\ destroy' = [pc |-> "deleting", e |-> e,
                                 sid |-> sessions[e].sessionId]
                  /\ lastOp' = Op("destroyStart", e, sessions[e].sessionId, 0)
                  /\ UNCHANGED sessions
             ELSE /\ sessions' = Removed(e)
                  /\ lastOp' = Op("destroyReturn", e, sessions[e].sessionId, 0)
                  /\ UNCHANGED destroy
  /\ UNCHANGED <<notDestroy, live>>

\* deleteSession is answered or fails: either way the entry of the endpoint
\* is removed and destroySession returns
DestroyAnswer(ok) ==
  /\ destroy.pc = "deleting"
  /\ live' = IF ok THEN live \ {destroy.sid} ELSE live
  /\ sessions' = Removed(destroy.e)
  /\ destroy' = IdleDestroy
  /\ lastOp' = Op("destroyReturn", destroy.e, destroy.sid,
                  IF ok THEN 1 ELSE 0)
  /\ UNCHANGED <<notDestroy, timers>>

\* ------------------------------------------------------------- environment

Tick ==
  /\ now + TickStep <= MaxTime
  /\ now' = now + TickStep
  /\ lastOp' = Op("tick", "-", 0, 0)
  /\ UNCHANGED <<smVars, envVars, pollVars, alerts>>
  /\ UNCHANGED auxVars

\* POST /api/config stores the row; the store may lose it
ApiConfigChange(b) ==
  /\ apiConfig # b
  /\ apiConfig' = b
  /\ lastOp' = Op("apiConfig", "-", 0, 0)
  /\ UNCHANGED <<authenticated, smVars, now, pollVars, alerts>>
  /\ UNCHANGED auxVars

\* POST /api/storages/:id/authenticate stores credentials; the row may stop
\* being usable (removed, or no longer decryptable)
CredentialsChange(e, b) ==
  /\ authenticated[e] # b
  /\ authenticated' = [authenticated EXCEPT ![e] = b]
  /\ lastOp' = Op("credentials", e, 0, 0)
  /\ UNCHANGED <<apiConfig, smVars, now, pollVars, alerts>>
  /\ UNCHANGED auxVars

\* ---------------------------------------------------------- alerts (store)

AlertKey(row) == <<row.cg, row.type, row.severity>>

CreateAlert_AnyRow(rows, cg, type, severity) ==
  IF \E i \in 1..Len(rows) :
       /\ rows[i].cg = cg /\ rows[i].type = type
       /\ rows[i].severity = severity
  THEN rows
  ELSE Append(rows, [cg |-> cg, type |-> type, severity |-> severity,
                     ack |-> FALSE])

\* createAlert: insert unless an unacknowledged row with the same
\* (cg_id, alert_type, severity) exists
CreateAlert(rows, cg, type, severity) ==
  IF \E i \in 1..Len(rows) :
       /\ rows[i].cg = cg /\ rows[i].type = type
       /\ rows[i].severity = severity /\ ~rows[i].ack
  THEN rows
  ELSE Append(rows, [cg |-> cg, type |-> type, severity |-> severity,
                     ack |-> FALSE])

ErrorStatuses == {"PJNF", "SJNF", "PJSF", "SJSF", "PJSE", "SJSE", "PJES", "SJES"}

\* the createAlert calls of checkThresholds for one journal, in order
Raised(j) ==
  (IF j.usageRate >= CriticalPercent
   THEN <<[type |-> "usage_rate_critical", severity |-> "critical"]>>
   ELSE IF j.usageRate >= WarningPercent
   THEN <<[type |-> "usage_rate_warning", severity |-> "warning"]>>
   ELSE <<>>)
  \o (IF j.journalStatus \in ErrorStatuses
      THEN <<[type |-> "journal_status_error", severity |-> "critical"]>>
      ELSE <<>>)

RECURSIVE RaiseAll(_, _, _)
RaiseAll(rows, cg, raised) ==
  IF raised = <<>> THEN rows
  ELSE RaiseAll(CreateAlert(rows, cg, Head(raised).type, Head(raised).severity),
                cg, Tail(raised))

\* checkThresholds for one journal
CheckThresholds(rows, j) == RaiseAll(rows, j.cg, Raised(j))

\* the loop of pollStorage over the journal list, SMPL entries skipped
RECURSIVE ProcessJournals(_, _)
ProcessJournals(rows, list) ==
  IF list = <<>> THEN rows
  ELSE ProcessJournals(
         IF Head(list).journalStatus = "SMPL" THEN rows
         ELSE CheckThresholds(rows, Head(list)),
         Tail(list))

\* the keys for which one journal answer calls createAlert
RaisedKeys(list) ==
  {<<list[i].cg, Raised(list[i])[n].type, Raised(list[i])[n].severity>> :
     <<i, n>> \in {p \in (1..Len(list)) \X (1..2) :
                     /\ list[p[1]].journalStatus # "SMPL"
                     /\ p[2] <= Len(Raised(list[p[1]]))}}

\* POST /api/alerts/:alertId/acknowledge
Acknowledge(id) ==
  /\ alerts' = IF id \in 1..Len(alerts) /\ ~alerts[id].ack
               THEN [alerts EXCEPT ![id].ack = TRUE] ELSE alerts
  /\ lastOp' = Op("acknowledge", "-", id, 0)
  /\ UNCHANGED <<envVars, smVars, now, pollVars>>
  /\ UNCHANGED auxVars

\* ---------------------------------------------------------------- poller.js

NoTime    == -1
NoError   == <<>>
IdleCycle == [pc |-> "idle", storages |-> <<>>, idx |-> 0, errors |-> <<>>,
              session |-> 0]
NoHist    == [storages |-> <<>>, visited |-> <<>>, errors |-> <<>>,
              journalFailed |-> {}, stamps |-> 0]

\* getAuthenticatedStorages
AuthStorages == SelectSeq(StorageOrder, LAMBDA e : authenticated[e])

PollGuard_Missing == FALSE

\* the guard at the top of pollCycle
PollGuard == isPolling

Finally_Skipped == TRUE

\* finally { isPolling = false }
Finally == FALSE

AfterFailure_Abort(st, i) == Len(st) + 1

\* the catch around pollStorage: the loop goes on with the next storage
AfterFailure(st, i) == i + 1

\* getSession throws before any await
SyncThrow(e) == StartOutcome(e) \in {"getSessionNoConfig", "getSessionNoCreds"}

Scan_All(st, i, errs, vis) ==
  [idx |-> i, errors |-> errs, visited |-> st]

\* the loop of pollCycle from storage i on, up to the first network await
RECURSIVE Scan(_, _, _, _)
Scan(st, i, errs, vis) ==
  IF i > Len(st) THEN [idx |-> i, errors |-> errs, visited |-> vis]
  ELSE IF SyncThrow(st[i])
  THEN Scan(st, AfterFailure(st, i), Append(errs, st[i]), Append(vis, st[i]))
  ELSE [idx |-> i, errors |-> errs, visited |-> Append(vis, st[i])]

EndOfCycle_OnlyClean(errs, lpe) ==
  [error |-> IF Len(errs) > 0 THEN errs ELSE lpe,
   time |-> IF Len(errs) > 0 THEN lastPollTime ELSE now,
   writes |-> IF Len(errs) > 0 THEN 0 ELSE 1]

\* the end of pollCycle: the error summary, then the poll time
EndOfCycle(errs, lpe) ==
  [error |-> IF Len(errs) > 0 THEN errs ELSE lpe, time |-> now, writes |-> 1]

\* pollCycle from storage i on: either the cycle ends (lastPollError,
\* lastPollTime, finally) or pollStorage waits for its first answer
RunFrom(src, st, i, errs, h, lpe) ==
  LET r == Scan(st, i, errs, h.visited)
      hh == [h EXCEPT !.storages = st, !.visited = r.visited,
                      !.errors = r.errors]
  IN IF r.idx > Len(st)
     THEN /\ lastPollError' = EndOfCycle(r.errors, lpe).error
          /\ lastPollTime' = EndOfCycle(r.errors, lpe).time
          /\ isPolling' = Finally
          /\ cyc' = [cyc EXCEPT ![src] = IdleCycle]
          /\ hist' = [hh EXCEPT !.stamps = @ + EndOfCycle(r.errors, lpe).writes]
          /\ lastOp' = Op("cycleEnd", "-", 0, 0)
     ELSE /\ lastPollError' = lpe
          /\ isPolling' = TRUE
          /\ cyc' = [cyc EXCEPT ![src] =
               [pc |-> IF CacheHit(st[r.idx]) THEN "refresh" ELSE "createSession",
                storages |-> st, idx |-> r.idx, errors |-> r.errors,
                session |-> IF CacheHit(st[r.idx])
                            THEN sessions[st[r.idx]].sessionId ELSE 0]]
          /\ hist' = hh
          /\ lastOp' = Op("pollStorage", st[r.idx], 0, 0)
          /\ UNCHANGED lastPollTime

\* pollCycle, called by the cron job, by pollNow or by startPolling
PollCycle(src) ==
  /\ PollGuard \/ cyc[src].pc = "idle"
  /\ IF PollGuard
     THEN /\ lastOp' = Op("pollSkipped", "-", 0, 0)
          /\ UNCHANGED <<isPolling, lastPollTime, lastPollError, cyc, hist>>
     ELSE IF ~apiConfig \/ AuthStorages = <<>>
     THEN /\ isPolling' = Finally
          /\ lastPollError' = NoError
          /\ hist' = NoHist
          /\ lastOp' = Op(IF ~apiConfig THEN "cycleNoConfig"
                          ELSE "cycleNoStorages", "-", 0, 0)
          /\ UNCHANGED <<lastPollTime, cyc>>
     ELSE RunFrom(src, AuthStorages, 1, <<>>, NoHist, NoError)
  /\ UNCHANGED <<envVars, smVars, now, alerts>>
  /\ UNCHANGED auxVars

CronTick ==
  /\ cronJob
  /\ PollCycle("cron")
  /\ UNCHANGED <<cronJob, interval>>

PollNow ==
  /\ PollCycle("manual")
  /\ UNCHANGED <<cronJob, interval>>

\* a JavaScript number: an integer or NaN; and the settings row being absent
Num(n)    == [kind |-> "num", v |-> n]
NaN       == [kind |-> "nan", v |-> 0]
NoSetting == [kind |-> "none", v |-> 0]

DEFAULT_INTERVAL_SECONDS == 300

\* parseInt(getSetting('polling_interval_seconds') || '300', 10)
IntervalSeconds(setting) ==
  IF setting.kind = "none" THEN Num(DEFAULT_INTERVAL_SECONDS) ELSE setting

\* Math.round(seconds / 60): halves go up
RoundMinutes(x) == IF x.kind = "nan" THEN NaN ELSE Num((x.v + 30) \div 60)

\* Math.round(minutes) of a number of half minutes
RoundHalves(x) == IF x.kind = "nan" THEN NaN ELSE Num((x.v + 1) \div 2)

\* Math.max(1, x): NaN when x is NaN
AtLeastOne(x) ==
  IF x.kind = "nan" THEN NaN ELSE Num(IF x.v < 1 THEN 1 ELSE x.v)

\* the minutes startPolling puts into the cron expression
IntervalMinutes(setting) == AtLeastOne(RoundMinutes(IntervalSeconds(setting)))

\* startPolling: cron.schedule rejects an expression that is not a number of
\* minutes, before cronJob is assigned and before the initial cycle
StartPolling ==
  IF cronJob
  THEN /\ lastOp' = Op("startPollingNoop", "-", 0, 0)
       /\ UNCHANGED <<envVars, smVars, now, alerts, pollVars, auxVars>>
  ELSE IF IntervalMinutes(interval.setting).kind = "nan"
  THEN /\ lastOp' = Op("startPollingThrew", "-", 0, 0)
       /\ UNCHANGED <<envVars, smVars, now, alerts, pollVars, auxVars>>
  ELSE /\ cronJob' = TRUE
       /\ interval' = [interval EXCEPT
                         !.minutes = IntervalMinutes(interval.setting).v,
                         !.jobs = @ + 1]
       /\ PollCycle("initial")

\* String(validMinutes * 60), as parseInt reads it back
StoredSeconds(x) == IF x.kind = "nan" THEN NaN ELSE Num(x.v * 60)

\* setInterval(minutes): the setting is written, and a running job is
\* stopped and started again
SetInterval(minutes) ==
  LET setting == StoredSeconds(AtLeastOne(RoundHalves(minutes))) IN
  IF ~cronJob
  THEN /\ interval' = [interval EXCEPT !.setting = setting]
       /\ lastOp' = Op("setInterval", "-", 0, 0)
       /\ UNCHANGED <<envVars, smVars, now, alerts, cronJob, isPolling,
                      lastPollTime, lastPollError, cyc, hist, auxVars>>
  ELSE IF IntervalMinutes(setting).kind = "nan"
  THEN /\ cronJob' = FALSE
       /\ interval' = [setting |-> setting, minutes |-> 0,
                       jobs |-> interval.jobs - 1]
       /\ lastOp' = Op("setIntervalThrew", "-", 0, 0)
       /\ UNCHANGED <<envVars, smVars, now, alerts, isPolling, lastPollTime,
                      lastPollError, cyc, hist, auxVars>>
  ELSE /\ cronJob' = TRUE
       /\ interval' = [setting |-> setting,
                       minutes |-> IntervalMinutes(setting).v,
                       jobs |-> interval.jobs - 1 + 1]
       /\ PollCycle("initial")

\* pollCycle passes the guard and getApiConfig or getAuthenticatedStorages
\* throws: the catch records the message, the finally releases the guard
PollCycleThrew(src) ==
  /\ ~PollGuard
  /\ cyc[src].pc = "idle"
  /\ src = "cron" => cronJob
  /\ isPolling' = Finally
  /\ lastPollError' = <<"exception">>
  /\ hist' = NoHist
  /\ lastOp' = Op("cycleThrew", "-", 0, 0)
  /\ UNCHANGED <<envVars, smVars, now, alerts, cronJob, interval,
                 lastPollTime, cyc, auxVars>>

\* PUT /api/config/settings with polling_interval_seconds in the body
PutSettings(value) ==
  /\ interval' = [interval EXCEPT !.setting = value]
  /\ lastOp' = Op("putSettings", "-", 0, 0)
  /\ UNCHANGED <<envVars, smVars, now, alerts, cronJob, isPolling,
                 lastPollTime, lastPollError, cyc, hist, auxVars>>

StopPolling ==
  /\ cronJob' = FALSE
  /\ interval' = [interval EXCEPT
                    !.minutes = 0,
                    !.jobs = IF cronJob THEN @ - 1 ELSE @]
  /\ lastOp' = Op("stopPolling", "-", 0, 0)
  /\ UNCHANGED <<envVars, smVars, now, alerts, isPolling, lastPollTime,
                 lastPollError, cyc, hist>>
  /\ UNCHANGED auxVars

Here(src) == cyc[src].storages[cyc[src].idx]

\* pollStorage: createSession of getSession answered
PollSessionCreated(src) ==
  /\ cyc[src].pc = "createSession"
  /\ nextSid <= MaxSessions
  /\ live' = live \cup {nextSid}
  /\ nextSid' = nextSid + 1
  /\ StoreSession(Here(src), nextSid)
  /\ cyc' = [cyc EXCEPT ![src].pc = "refresh", ![src].session = nextSid]
  /\ lastOp' = Op("getSessionNew", Here(src), nextSid, sessions[Here(src)])
  /\ UNCHANGED <<envVars, callVars, now, alerts, cronJob, interval, isPolling,
                 lastPollTime, lastPollError, hist>>
  /\ UNCHANGED auxVars

\* pollStorage: getSession threw, pollCycle records the storage
PollSessionFailed(src) ==
  /\ cyc[src].pc = "createSession"
  /\ RunFrom(src, cyc[src].storages,
             AfterFailure(cyc[src].storages, cyc[src].idx),
             Append(cyc[src].errors, Here(src)), hist, lastPollError)
  /\ UNCHANGED <<envVars, smVars, now, alerts, cronJob, interval>>
  /\ UNCHANGED auxVars

\* pollStorage: refreshCache answered, or failed and was ignored
PollRefreshDone(src, ok) ==
  /\ cyc[src].pc = "refresh"
  /\ cyc' = [cyc EXCEPT ![src].pc = "journals"]
  /\ lastOp' = Op(IF ok THEN "refreshed" ELSE "refreshFailed", Here(src), 0, 0)
  /\ UNCHANGED <<envVars, smVars, now, alerts, cronJob, interval, isPolling,
                 lastPollTime, lastPollError, hist>>
  /\ UNCHANGED auxVars

\* pollStorage: one of the two getJournals calls failed: return, no throw
PollJournalsFailed(src) ==
  /\ cyc[src].pc = "journals"
  /\ RunFrom(src, cyc[src].storages, cyc[src].idx + 1, cyc[src].errors,
             [hist EXCEPT !.journalFailed = @ \cup {Here(src)}], lastPollError)
  /\ UNCHANGED <<envVars, smVars, now, alerts, cronJob, interval>>
  /\ UNCHANGED auxVars

\* pollStorage: both getJournals calls answered: thresholds are checked for
\* every journal, then the first page of pairs is requested
PollJournalsDone(src, list) ==
  /\ cyc[src].pc = "journals"
  /\ Len(ProcessJournals(alerts, list)) <= MaxAlerts
  /\ alerts' = ProcessJournals(alerts, list)
  /\ cyc' = [cyc EXCEPT ![src].pc = "pairs"]
  /\ lastOp' = Op("journals", Here(src), 0, RaisedKeys(list))
  /\ UNCHANGED <<envVars, smVars, now, cronJob, interval, isPolling, lastPollTime,
                 lastPollError, hist>>
  /\ UNCHANGED auxVars

\* pollStorage: getRemoteCopyPairs answered with an empty page, or failed and
\* was ignored: pollStorage returns
PollPairsDone(src, ok) ==
  /\ cyc[src].pc = "pairs"
  /\ RunFrom(src, cyc[src].storages, cyc[src].idx + 1, cyc[src].errors,
             hist, lastPollError)
  /\ UNCHANGED <<envVars, smVars, now, alerts, cronJob, interval>>
  /\ UNCHANGED auxVars

\* ------------------------------------------------------------ hitachiApi.js

MAX_RETRIES         == 3
BASE_RETRY_DELAY_MS == 1000

\* an attempt that got no response (connection error, 30 s timeout)
NetworkError == 0

\* what one attempt can end with: no response, or an HTTP status
Responses == {NetworkError, 200, 400, 401, 403, 404, 408, 429, 500, 503}

NoResponseError == [status |-> -1, response |-> FALSE]

IdleRetry == [pc |-> "idle", attempt |-> 0, statuses |-> <<>>, waits |-> <<>>,
              error |-> NoResponseError]

\* requestFn() resolves: axios resolves on a 2xx status
Resolves(s) == s >= 200 /\ s < 300

ClientError_None(s) == FALSE

\* the statuses withRetry rethrows at once
ClientError(s) == s >= 400 /\ s < 500 /\ s # 408 /\ s # 429

RetriesLeft_Always(attempt) == TRUE

\* attempt < MAX_RETRIES
RetriesLeft(attempt) == attempt < MAX_RETRIES

RetryDelay_Linear(attempt) == BASE_RETRY_DELAY_MS * (attempt + 1)

\* BASE_RETRY_DELAY_MS * Math.pow(2, attempt)
RetryDelay(attempt) == BASE_RETRY_DELAY_MS * 2 ^ attempt

\* a call of withRetry: the first attempt is sent
WithRetry ==
  /\ retry.pc \in {"idle", "returned", "thrown"}
  /\ retry' = [IdleRetry EXCEPT !.pc = "request"]
  /\ lastOp' = Op("withRetry", "-", 0, 0)
  /\ UNCHANGED <<envVars, smVars, now, alerts, pollVars, cleanup, proc, pager, db, disc,
                 extVars>>

\* an attempt ends with s: return, rethrow, wait for the next attempt, or
\* throw the error built after the loop
RetryAnswer(s) ==
  /\ retry.pc = "request"
  /\ LET seen == Append(retry.statuses, s) IN
       retry' =
         IF Resolves(s)
         THEN [retry EXCEPT !.pc = "returned", !.statuses = seen]
         ELSE IF s # NetworkError /\ ClientError(s)
         THEN [retry EXCEPT !.pc = "thrown", !.statuses = seen,
                            !.error = [status |-> s, response |-> TRUE]]
         ELSE IF RetriesLeft(retry.attempt)
         THEN [retry EXCEPT !.pc = "backoff", !.statuses = seen,
                            !.waits = Append(@, RetryDelay(retry.attempt))]
         ELSE [retry EXCEPT !.pc = "thrown", !.statuses = seen,
                            !.error = [status |-> s, response |-> FALSE]]
  /\ lastOp' = Op("retryAnswer", "-", s, 0)
  /\ UNCHANGED <<envVars, smVars, now, alerts, pollVars, cleanup, proc, pager, db, disc,
                 extVars>>

\* the backoff timer fires: the next attempt is sent
RetryBackoffDone ==
  /\ retry.pc = "backoff"
  /\ retry' = [retry EXCEPT !.pc = "request", !.attempt = @ + 1]
  /\ lastOp' = Op("retryBackoffDone", "-", 0, 0)
  /\ UNCHANGED <<envVars, smVars, now, alerts, pollVars, cleanup, proc, pager, db, disc,
                 extVars>>

\* --------------------------------------- sessionManager.js: cleanupAllSessions

IdleCleanup == [pc |-> "idle", pending |-> {}, snapshot |-> {}, asked |-> {},
                attempts |-> 0]

\* the entries of the Map when cleanupAllSessions iterates it
CachedEndpoints == {e \in Endpoints : sessions[e] # NoSession}

CachedIds == {sessions[e].sessionId : e \in CachedEndpoints}

TimersOfCache_None == {}

\* the pending timers that clearTimeout(session.renewalTimer) cancels
TimersOfCache ==
  {t \in timers : \E e \in CachedEndpoints : sessions[e].renewalTimer = t.id}

\* sessions.clear()
ClearedSessions == [e \in Endpoints |-> NoSession]

\* cleanupAllSessions up to Promise.allSettled, or to its return when there
\* is no API configuration or nothing to delete
CleanupAllSessions ==
  /\ cleanup.pc = "idle"
  /\ timers' = timers \ TimersOfCache
  /\ IF ~apiConfig \/ CachedEndpoints = {}
     THEN /\ sessions' = ClearedSessions
          /\ cleanup' = [IdleCleanup EXCEPT !.snapshot = CachedIds]
          /\ lastOp' = Op("cleanupReturn", "-", 0, 0)
     ELSE /\ cleanup' =
               [pc |-> "waiting",
                pending |-> {[sid |-> sessions[e].sessionId, e |-> e,
                              attempt |-> 0] : e \in CachedEndpoints},
                snapshot |-> CachedIds, asked |-> CachedIds,
                attempts |-> Cardinality(CachedIds)]
          /\ lastOp' = Op("cleanupStart", "-", 0, 0)
          /\ UNCHANGED sessions
  /\ UNCHANGED <<live, nextSid, calls, renewals, now, envVars, alerts>>
  /\ UNCHANGED <<pollVars, retry, proc, pager, db, disc,
                 extVars>>

\* an attempt of one deleteSession call is answered with s: withRetry sends
\* the next attempt after its backoff, or the call is settled; when the last
\* call is settled cleanupAllSessions clears the Map and returns
CleanupDeleteAnswer(d, s) ==
  /\ cleanup.pc = "waiting"
  /\ d \in cleanup.pending
  /\ LET again == /\ ~Resolves(s)
                  /\ ~(s # NetworkError /\ ClientError(s))
                  /\ RetriesLeft(d.attempt)
         pend == (cleanup.pending \ {d}) \cup
                   (IF again THEN {[d EXCEPT !.attempt = @ + 1]} ELSE {})
     IN /\ live' = IF Resolves(s) THEN live \ {d.sid} ELSE live
        /\ IF pend = {}
           THEN /\ sessions' = ClearedSessions
                /\ cleanup' = [cleanup EXCEPT !.pc = "idle", !.pending = {}]
                /\ lastOp' = Op("cleanupReturn", "-", 0, 0)
           ELSE /\ cleanup' = [cleanup EXCEPT !.pending = pend,
                                 !.attempts = @ + IF again THEN 1 ELSE 0]
                /\ lastOp' = Op("cleanupAnswer", d.e, d.sid, 0)
                /\ UNCHANGED sessions
  /\ UNCHANGED <<nextSid, timers, calls, renewals, now, envVars, alerts>>
  /\ UNCHANGED <<pollVars, retry, proc, pager, db, disc,
                 extVars>>

\* ---------------------------------------------------------------- server.js

\* SIGTERM or SIGINT: gracefulShutdown calls server.close and arms the
\* 10 s forced exit
GracefulShutdown ==
  /\ proc = "running"
  /\ proc' = "closing"
  /\ lastOp' = Op("shutdown", "-", 0, 0)
  /\ UNCHANGED <<envVars, smVars, now, alerts, pollVars, retry, cleanup, pager, db, disc,
                 extVars>>

\* the callback of server.close: closeDatabase, process.exit(0)
ServerClosed ==
  /\ proc = "closing"
  /\ proc' = "exited"
  /\ lastOp' = Op("exit", "-", 0, 0)
  /\ UNCHANGED <<envVars, smVars, now, alerts, pollVars, retry, cleanup, pager, db, disc,
                 extVars>>

\* the 10 s timer: process.exit(1)
ForcedExit ==
  /\ proc = "closing"
  /\ proc' = "exited"
  /\ lastOp' = Op("exit", "-", 1, 0)
  /\ UNCHANGED <<envVars, smVars, now, alerts, pollVars, retry, cleanup, pager, db, disc,
                 extVars>>

\* ------------------------------------------------ discovery.js: discoverPairs

\* SQL NULL in a numeric column, and in a text column; Null also stands for
\* a numeric property that an answer of the array does not carry
Null     == -1
NoStatus == "NULL"

PairTypes == {"UR", "TC"}

\* the pairs of an array, in the order the array lists them: by volume id
RECURSIVE PairsOver(_, _)
PairsOver(ids, ty) ==
  IF ids = {} THEN <<>>
  ELSE LET m == CHOOSE x \in ids : \A y \in ids : x <= y
       IN <<[pvolLdevId |-> m, replicationType |-> ty[m]]>>
            \o PairsOver(ids \ {m}, ty)

ArrayContents ==
  {PairsOver(ids, ty) : ids \in SUBSET (0..MaxLdev),
                        ty \in [0..MaxLdev -> PairTypes]}

IdlePager == [pc |-> "idle", array |-> <<>>, head |-> 0, heads |-> <<>>,
              all |-> <<>>]

\* the array's answer to GET remote-copypairs?headLdevId=head&count=count
PairsPage(array, head, count) ==
  LET from == SelectSeq(array, LAMBDA q : q.pvolLdevId >= head)
  IN SubSeq(from, 1, IF Len(from) < count THEN Len(from) ELSE count)

\* pairs.filter((pair) => pair.replicationType === 'UR')
UrPairs(pairs) == SelectSeq(pairs, LAMBDA q : q.replicationType = "UR")

NextHead_Offset(head, pairs) == head + Len(pairs)

\* x || 0
OrZero(x) == IF x = Null THEN 0 ELSE x

\* (lastPair.pvolLdevId || 0) + 1
NextHead(head, pairs) == OrZero(pairs[Len(pairs)].pvolLdevId) + 1

\* discoverPairs after getSession: the first page is requested
DiscoverPairs ==
  /\ pager.pc \in {"idle", "returned", "thrown"}
  /\ pager' = [pager EXCEPT !.pc = "waiting", !.head = 0, !.heads = <<0>>,
                            !.all = <<>>]
  /\ lastOp' = Op("discoverPairs", "-", 0, 0)
  /\ UNCHANGED <<envVars, smVars, now, alerts, pollVars, retry, cleanup, proc,
                 db, disc,
                 extVars>>

\* a page arrives: its UR pairs are kept, and the loop ends or asks for the
\* page after the last pair of this one
PairsAnswer ==
  /\ pager.pc = "waiting"
  /\ LET pairs == PairsPage(pager.array, pager.head, BATCH_SIZE) IN
       pager' =
         IF Len(pairs) = 0 THEN [pager EXCEPT !.pc = "returned"]
         ELSE IF Len(pairs) < BATCH_SIZE
         THEN [pager EXCEPT !.pc = "returned", !.all = @ \o UrPairs(pairs)]
         ELSE [pager EXCEPT !.all = @ \o UrPairs(pairs),
                            !.head = NextHead(pager.head, pairs),
                            !.heads = Append(@, NextHead(pager.head, pairs))]
  /\ lastOp' = Op("pairsAnswer", "-", 0, 0)
  /\ UNCHANGED <<envVars, smVars, now, alerts, pollVars, retry, cleanup, proc,
                 db, disc,
                 extVars>>

\* the same step of the loop when the array answers with any batch of at
\* most BATCH_SIZE pairs, whatever the request was: the loop looks at the
\* length of the batch and at the volume id of its last pair only
PairsBatch(pairs) ==
  /\ pager.pc = "waiting"
  /\ Len(pairs) = BATCH_SIZE => Len(pager.heads) <= MaxPages
  /\ pager' =
       IF Len(pairs) = 0 THEN [pager EXCEPT !.pc = "returned"]
       ELSE IF Len(pairs) < BATCH_SIZE
       THEN [pager EXCEPT !.pc = "returned", !.all = @ \o UrPairs(pairs)]
       ELSE [pager EXCEPT !.all = @ \o UrPairs(pairs),
                          !.head = NextHead(pager.head, pairs),
                          !.heads = Append(@, NextHead(pager.head, pairs))]
  /\ lastOp' = Op("pairsBatch", "-", 0, Len(pairs))
  /\ UNCHANGED <<envVars, smVars, now, alerts, pollVars, retry, cleanup, proc,
                 db, disc,
                 extVars>>

\* getRemoteCopyPairs rejects: discoverPairs throws
PairsFailed ==
  /\ pager.pc = "waiting"
  /\ pager' = [pager EXCEPT !.pc = "thrown"]
  /\ lastOp' = Op("pairsFailed", "-", 0, 0)
  /\ UNCHANGED <<envVars, smVars, now, alerts, pollVars, retry, cleanup, proc,
                 db, disc,
                 extVars>>

\* --------------------------------- discovery.js: saveConsistencyGroups

CgIds       == {1, 2}
VolumeLists == {<<>>, <<1>>, <<1, 2>>}
RemoteLists == {<<"B">>}
JournalLdevs == {1}

\* one entry of the array discoverConsistencyGroups returns: a group found
\* through its journals alone has no volumes, no remote array, and the
\* volume count of its journals
DiscoveredGroups ==
  {[consistencyGroupId |-> c, volumes |-> v, volumeCount |-> Len(v),
    remoteStorageIds |-> r] :
     c \in CgIds, v \in VolumeLists \ {<<>>}, r \in RemoteLists}
  \cup
  {[consistencyGroupId |-> c, volumes |-> <<>>, volumeCount |-> n,
    remoteStorageIds |-> <<>>] : c \in CgIds, n \in JournalLdevs}

\* the groups of one array: one entry per group id, sorted by group id
DiscoveryResults ==
  {g \in UNION {[1..n -> DiscoveredGroups] : n \in 0..Cardinality(CgIds)} :
     \A i \in 1..Len(g) : \A j \in 1..Len(g) :
        i < j => g[i].consistencyGroupId < g[j].consistencyGroupId}

NoSave  == [source |-> "-", groups |-> <<>>, inserted |-> 0]
EmptyDb == [consistency_groups |-> <<>>, cg_volumes |-> {}, saved |-> NoSave]

\* SELECT id FROM consistency_groups WHERE cg_id = ? AND source_storage_id = ?
\* (a row's id is its position: rows are never deleted)
Existing_None(table, cgId, sourceStorageId) == {}

Existing(table, cgId, sourceStorageId) ==
  {i \in 1..Len(table) : /\ table[i].cg_id = cgId
                         /\ table[i].source_storage_id = sourceStorageId}

FirstOf(ids) == CHOOSE i \in ids : \A j \in ids : i <= j

\* the rows of cg_volumes, without their surrogate id and discovered_at
VolumeRows(sourceStorageId, cgId, volumes) ==
  {[cg_id |-> cgId, source_storage_id |-> sourceStorageId,
    pvol_ldev_id |-> volumes[k]] : k \in 1..Len(volumes)}

SaveVolumeDetails(rows, sourceStorageId, cgId, volumes) ==
  {r \in rows : ~(r.cg_id = cgId /\ r.source_storage_id = sourceStorageId)}
    \cup VolumeRows(sourceStorageId, cgId, volumes)

\* group.remoteStorageIds?.[0] || sourceStorageId
TargetStorageId(group, sourceStorageId) ==
  IF Len(group.remoteStorageIds) > 0 THEN group.remoteStorageIds[1]
  ELSE sourceStorageId

\* one turn of the loop of the saveGroup transaction
SaveGroup(d, sourceStorageId, group) ==
  LET existing == Existing(d.consistency_groups, group.consistencyGroupId,
                           sourceStorageId)
      target   == TargetStorageId(group, sourceStorageId)
  IN [d EXCEPT
       !.consistency_groups =
          IF existing # {}
          THEN [@ EXCEPT ![FirstOf(existing)] =
                  [@ EXCEPT !.target_storage_id = target,
                            !.volume_count = group.volumeCount,
                            !.is_monitored = TRUE]]
          ELSE Append(@, [cg_id |-> group.consistencyGroupId,
                          source_storage_id |-> sourceStorageId,
                          target_storage_id |-> target,
                          volume_count |-> group.volumeCount,
                          is_monitored |-> TRUE]),
       !.cg_volumes =
          IF Len(group.volumes) > 0
          THEN SaveVolumeDetails(@, sourceStorageId,
                                 group.consistencyGroupId, group.volumes)
          ELSE @]

RECURSIVE SaveGroups(_, _, _)
SaveGroups(d, sourceStorageId, groups) ==
  IF groups = <<>> THEN d
  ELSE SaveGroups(SaveGroup(d, sourceStorageId, Head(groups)),
                  sourceStorageId, Tail(groups))

\* saveConsistencyGroups(sourceStorageId, groups), with what it was given
Saved(d, sourceStorageId, groups) ==
  LET after == SaveGroups(d, sourceStorageId, groups)
  IN [after EXCEPT !.saved =
        [source |-> sourceStorageId, groups |-> groups,
         inserted |-> Len(after.consistency_groups)
                        - Len(d.consistency_groups)]]

SaveConsistencyGroups(sourceStorageId, groups) ==
  /\ db' = Saved(db, sourceStorageId, groups)
  /\ lastOp' = Op("saveConsistencyGroups", sourceStorageId, 0, 0)
  /\ UNCHANGED <<envVars, smVars, now, alerts, pollVars, retry, cleanup, proc,
                 pager, disc,
                 extVars>>

\* PATCH /api/monitoring/groups/:cgId with is_monitored in the body: 404
\* when no row has the cg_id, else every row of that cg_id gets the flag
PatchGroup(cgId, isMonitored) ==
  /\ db' = [db EXCEPT !.consistency_groups =
              [i \in 1..Len(@) |->
                 IF @[i].cg_id = cgId
                 THEN [@[i] EXCEPT !.is_monitored = isMonitored]
                 ELSE @[i]]]
  /\ lastOp' = Op("patchGroup", "-", 0, cgId)
  /\ UNCHANGED <<envVars, smVars, now, alerts, pollVars, retry, cleanup, proc,
                 pager, disc,
                 extVars>>

\* ------------------------------------------- discovery.js: runFullDiscovery

\* what the topology service does in one run: no credentials for it are
\* stored, its login is refused, its queries throw, its answer lacks a list
\* the caller reads, it answers with empty lists, it answers with data
ProtectorOutcomes ==
  {"unconfigured", "authFailed", "noAnswer", "malformed", "empty", "data"}

IdleDiscovery ==
  [pc |-> "idle", storages |-> <<>>, protector |-> "-",
   protectorResults |-> FALSE, ran |-> <<>>, errors |-> <<>>]

ProtectorCaught_Never(o) == FALSE

\* the try/catch of discoverViaProtector
ProtectorCaught(o) == TRUE

\* discoverViaProtector: "null", "results", or "throw" when an exception
\* leaves it
ViaProtector(o) ==
  IF o = "unconfigured" THEN "null"
  ELSE IF o \in {"authFailed", "noAnswer", "malformed"}
  THEN IF ProtectorCaught(o) THEN "null" ELSE "throw"
  ELSE "results"

\* the for loop of runFullDiscovery has nothing left to do
LoopDone(d) == Len(d.ran) = Len(d.storages)

\* runFullDiscovery after discoverViaProtector
AfterProtector(d, o) ==
  LET d1 == [d EXCEPT !.protector = o] IN
  IF ViaProtector(o) = "throw" THEN [d1 EXCEPT !.pc = "thrown"]
  ELSE LET d2 == [d1 EXCEPT !.protectorResults = (ViaProtector(o) = "results")]
       IN [d2 EXCEPT !.pc = IF LoopDone(d2) THEN "returned" ELSE "arrays"]

\* runFullDiscovery up to the request of discoverStorages
RunFullDiscovery ==
  /\ disc.pc \in {"idle", "returned", "thrown"}
  /\ disc' = [IdleDiscovery EXCEPT
                !.pc = IF apiConfig THEN "storages" ELSE "thrown"]
  /\ lastOp' = Op("runFullDiscovery", "-", 0, 0)
  /\ UNCHANGED <<envVars, smVars, now, alerts, pollVars, retry, cleanup, proc,
                 pager, db,
                 extVars>>

\* listStorages rejects: runFullDiscovery throws
StoragesFailed ==
  /\ disc.pc = "storages"
  /\ disc' = [disc EXCEPT !.pc = "thrown"]
  /\ lastOp' = Op("storagesFailed", "-", 0, 0)
  /\ UNCHANGED <<envVars, smVars, now, alerts, pollVars, retry, cleanup, proc,
                 pager, db,
                 extVars>>

\* listStorages answers: the authenticated arrays are read, and
\* discoverViaProtector returns at once or logs in to the topology service
StoragesAnswer(configured) ==
  /\ disc.pc = "storages"
  /\ LET d == [disc EXCEPT !.storages = AuthStorages] IN
       disc' = IF apiConfig /\ configured
               THEN [d EXCEPT !.pc = "protectorAuth"]
               ELSE AfterProtector(d, "unconfigured")
  /\ lastOp' = Op("storagesAnswer", "-", 0, 0)
  /\ UNCHANGED <<envVars, smVars, now, alerts, pollVars, retry, cleanup, proc,
                 pager, db,
                 extVars>>

\* protectorApi.authenticate settles
ProtectorAuthAnswer(ok) ==
  /\ disc.pc = "protectorAuth"
  /\ disc' = IF ok THEN [disc EXCEPT !.pc = "protectorData"]
             ELSE AfterProtector(disc, "authFailed")
  /\ lastOp' = Op("protectorAuth", "-", 0, 0)
  /\ UNCHANGED <<envVars, smVars, now, alerts, pollVars, retry, cleanup, proc,
                 pager, db,
                 extVars>>

\* protectorApi.discoverReplication settles
ProtectorDataAnswer(o) ==
  /\ disc.pc = "protectorData"
  /\ o \in {"noAnswer", "malformed", "empty", "data"}
  /\ disc' = AfterProtector(disc, o)
  /\ lastOp' = Op("protectorData", "-", 0, 0)
  /\ UNCHANGED <<envVars, smVars, now, alerts, pollVars, retry, cleanup, proc,
                 pager, db,
                 extVars>>

\* the array the loop is at
CurrentStorage == disc.storages[Len(disc.ran) + 1]

\* one turn of the loop after discoverConsistencyGroups settled
AfterArray(d, e, ok) ==
  LET d1 == [d EXCEPT !.ran = Append(@, [e |-> e, ok |-> ok]),
                      !.errors = IF ok THEN @ ELSE Append(@, e)]
  IN [d1 EXCEPT !.pc = IF LoopDone(d1) THEN "returned" ELSE "arrays"]

\* discoverConsistencyGroups returns the groups of the array: they are
\* saved when there are any
ArrayDiscovered(groups) ==
  /\ disc.pc = "arrays"
  /\ apiConfig
  /\ disc' = AfterArray(disc, CurrentStorage, TRUE)
  /\ db' = IF Len(groups) > 0 THEN Saved(db, CurrentStorage, groups) ELSE db
  /\ lastOp' = Op("arrayDiscovered", CurrentStorage, 0, 0)
  /\ UNCHANGED <<envVars, smVars, now, alerts, pollVars, retry, cleanup, proc,
                 pager,
                 extVars>>

\* discoverConsistencyGroups throws: no configuration, or no session
ArrayFailed ==
  /\ disc.pc = "arrays"
  /\ disc' = AfterArray(disc, CurrentStorage, FALSE)
  /\ lastOp' = Op("arrayFailed", CurrentStorage, 0, 0)
  /\ UNCHANGED <<envVars, smVars, now, alerts, pollVars, retry, cleanup, proc,
                 pager, db,
                 extVars>>

\* ---------------------------------------- poller.js: pollStorage in detail

\* data.x || null: 0 is stored as NULL
OrNull(x) == IF x = 0 THEN Null ELSE x

\* what the poller leaves alone while it polls one array
notStorage == <<envVars, smVars, now, pollVars, retry, cleanup, proc, pager,
                db, disc, grp, dcg, calc, destroy>>

IdleStorage ==
  [pc |-> "idle", basic |-> "none", detail |-> "none", first |-> 0,
   alertsBefore |-> 0, entries |-> <<>>, checked |-> <<>>, page |-> <<>>,
   i |-> 0, pages |-> 0, urSeen |-> 0, handled |-> 0,
   sessionFailed |-> FALSE, refreshFailed |-> FALSE, pairsFailed |-> FALSE,
   ldevFailed |-> FALSE]

\* the row storeRpoDataPoint inserts for one journal entry
Sample(j) ==
  [cg_id |-> j.cg, journal_id |-> OrNull(j.journalId),
   usage_rate |-> OrNull(j.usageRate), journal_status |-> j.journalStatus,
   block_delta_bytes |-> Null, pair_status |-> NoStatus]

Skipped_Never(j) == FALSE

\* if (journal.journalStatus === 'SMPL') continue
Skipped(j) == j.journalStatus = "SMPL"

\* the loop of pollStorage over the journal list: a sample is stored and
\* the thresholds are checked for every entry that is not skipped
RECURSIVE ProcessEntries(_, _)
ProcessEntries(s, list) ==
  IF list = <<>> THEN s
  ELSE ProcessEntries(
         IF Skipped(Head(list)) THEN s
         ELSE [rpo |-> Append(s.rpo, Sample(Head(list))),
               alerts |-> CheckThresholds(s.alerts, Head(list)),
               checked |-> Append(s.checked, Head(list))],
         Tail(list))

JournalsReady_BasicOnly(basic, detail) == basic = "ok"

\* Promise.all of the two getJournals calls is fulfilled
JournalsReady(basic, detail) == basic = "ok" /\ detail = "ok"

\* UPDATE rpo_history SET block_delta_bytes = ?, pair_status = ?
\* WHERE cg_id = ? AND journal_id IS NOT NULL ORDER BY id DESC LIMIT 1
Backfill(rows, cgId, delta, status) ==
  LET found == {k \in 1..Len(rows) : /\ rows[k].cg_id = cgId
                                     /\ rows[k].journal_id # Null}
  IN IF found = {} THEN rows
     ELSE LET last == CHOOSE k \in found : \A m \in found : m <= k
          IN [rows EXCEPT ![last].block_delta_bytes = delta,
                          ![last].pair_status = status]

\* the next UR pair of the page after position i, 0 when there is none
NextUr(page, i) ==
  LET ur == {k \in (i + 1)..Len(page) : page[k].replicationType = "UR"}
  IN IF ur = {} THEN 0 ELSE CHOOSE k \in ur : \A m \in ur : k <= m

\* the for loop over the page goes on: the volumes of the next UR pair are
\* read, or the page is done and the next one is requested unless it was short
NextPair(p) ==
  IF NextUr(p.page, p.i) # 0
  THEN [p EXCEPT !.pc = "ldev", !.i = NextUr(p.page, p.i)]
  ELSE [p EXCEPT !.pc = IF Len(p.page) < BATCH_SIZE THEN "returned"
                        ELSE "pairs"]

AfterLdev_Abort(p, outcome) ==
  IF outcome = "pvolFailed" THEN [p EXCEPT !.pc = "returned"] ELSE NextPair(p)

\* after the try/catch around the block delta of one pair
AfterLdev(p, outcome) == NextPair(p)

\* pollStorage up to the request of getSession
PollStorage ==
  /\ ps.pc \in {"idle", "returned", "thrown"}
  /\ ps' = [IdleStorage EXCEPT !.pc = "session", !.first = Len(rpo),
                               !.alertsBefore = Len(alerts)]
  /\ lastOp' = Op("pollStorageStart", "-", 0, 0)
  /\ UNCHANGED <<notStorage, rpo, alerts>>

\* getSession settles: pollStorage goes on to refreshCache, or throws
StorageSession(ok) ==
  /\ ps.pc = "session"
  /\ ps' = IF ok THEN [ps EXCEPT !.pc = "refresh"]
           ELSE [ps EXCEPT !.pc = "thrown", !.sessionFailed = TRUE]
  /\ lastOp' = Op(IF ok THEN "storageSession" ELSE "storageSessionFailed",
                  "-", 0, 0)
  /\ UNCHANGED <<notStorage, rpo, alerts>>

\* refreshCache settles: both getJournals calls are made either way
StorageRefresh(ok) ==
  /\ ps.pc = "refresh"
  /\ ps' = [ps EXCEPT !.pc = "journals", !.basic = "pending",
                      !.detail = "pending", !.refreshFailed = ~ok]
  /\ lastOp' = Op(IF ok THEN "storageRefreshed" ELSE "storageRefreshFailed",
                  "-", 0, 0)
  /\ UNCHANGED <<notStorage, rpo, alerts>>

\* one of the two getJournals calls settles. The first failure makes
\* pollStorage return; when both have answered the entries of the basic
\* list are processed and the first page of pairs is requested
StorageJournals(kind, ok, list) ==
  /\ ps.pc = "journals"
  /\ kind \in {"basic", "detail"}
  /\ ps[kind] = "pending"
  /\ LET p1 == [ps EXCEPT ![kind] = IF ok THEN "ok" ELSE "failed"]
         done == ProcessEntries([rpo |-> rpo, alerts |-> alerts,
                                 checked |-> <<>>], list)
     IN IF ~ok
        THEN /\ list = <<>>
             /\ ps' = [p1 EXCEPT !.pc = "returned"]
             /\ UNCHANGED <<rpo, alerts>>
        ELSE IF JournalsReady(p1.basic, p1.detail)
        THEN /\ Len(done.rpo) <= MaxSamples
             /\ Len(done.alerts) <= MaxAlerts
             /\ rpo' = done.rpo
             /\ alerts' = done.alerts
             /\ ps' = [p1 EXCEPT !.pc = "pairs", !.entries = list,
                                 !.checked = done.checked]
        ELSE /\ list = <<>>
             /\ ps' = p1
             /\ UNCHANGED <<rpo, alerts>>
  /\ lastOp' = Op(IF ok THEN "storageJournals" ELSE "storageJournalsFailed",
                  "-", 0, 0)
  /\ UNCHANGED notStorage

\* getRemoteCopyPairs answers with a page
StoragePairs(page) ==
  /\ ps.pc = "pairs"
  /\ Len(page) <= BATCH_SIZE
  /\ Len(page) = BATCH_SIZE => ps.pages < MaxPages
  /\ ps' = IF page = <<>> THEN [ps EXCEPT !.pc = "returned"]
           ELSE NextPair([ps EXCEPT
                  !.page = page, !.i = 0,
                  !.pages = IF Len(page) = BATCH_SIZE THEN @ + 1 ELSE @,
                  !.urSeen = @ + Len(UrPairs(page))])
  /\ lastOp' = Op("storagePairs", "-", 0, 0)
  /\ UNCHANGED <<notStorage, rpo, alerts>>

\* getRemoteCopyPairs rejects: logged, pollStorage returns
StoragePairsFailed ==
  /\ ps.pc = "pairs"
  /\ ps' = [ps EXCEPT !.pc = "returned", !.pairsFailed = TRUE]
  /\ lastOp' = Op("storagePairsFailed", "-", 0, 0)
  /\ UNCHANGED <<notStorage, rpo, alerts>>

LdevOutcomes == {"both", "pvolFailed", "svolMissing"}

\* the two getLdevInfo calls of one pair settle: with both answers the
\* block delta is written, without the secondary one nothing is written,
\* and a failed primary read is logged
StorageLdev(outcome, delta) ==
  /\ ps.pc = "ldev"
  /\ rpo' = IF outcome = "both"
            THEN Backfill(rpo, ps.page[ps.i].cg, delta, ps.page[ps.i].status)
            ELSE rpo
  /\ ps' = AfterLdev([ps EXCEPT !.handled = @ + 1,
                                !.ldevFailed = @ \/ outcome = "pvolFailed"],
                     outcome)
  /\ lastOp' = Op(IF outcome = "both" THEN "blockDelta"
                  ELSE IF outcome = "pvolFailed" THEN "ldevFailed"
                  ELSE "ldevSkipped", "-", 0, ps.page[ps.i].cg)
  /\ UNCHANGED <<notStorage, alerts>>

\* ------------------------- discovery.js: discoverConsistencyGroups in detail

NoGroup ==
  [journals |-> <<>>, pairs |-> <<>>, done |-> FALSE,
   overallStatus |-> "normal", volumeCount |-> 0]

\* the severity tables of discoverConsistencyGroups
errorStatuses ==
  {"PJNF", "SJNF", "PJSF", "SJSF", "PJSE", "SJSE", "PJES", "SJES"}
warningStatuses   == {"PJSN", "SJSN", "PJNS", "SJNS"}
pairErrorStatuses == {"PSUE", "SSUE"}
pairWarnStatuses  == {"PSUS", "SSUS", "SSWS"}

\* the loop over the journals of the group: the first error status ends it
RECURSIVE JournalScan(_, _)
JournalScan(status, journals) ==
  IF journals = <<>> THEN status
  ELSE IF Head(journals).journalStatus \in errorStatuses THEN "critical"
  ELSE JournalScan(IF Head(journals).journalStatus \in warningStatuses
                   THEN "warning" ELSE status,
                   Tail(journals))

PairWarning_Always(status) == "warning"

\* if (overallStatus !== 'critical') overallStatus = 'warning'
PairWarning(status) == IF status # "critical" THEN "warning" ELSE status

\* the loop over the pairs of the group: the first error status ends it
RECURSIVE PairScan(_, _)
PairScan(status, pairs) ==
  IF pairs = <<>> THEN status
  ELSE IF \/ Head(pairs).pvolStatus \in pairErrorStatuses
          \/ Head(pairs).svolStatus \in pairErrorStatuses
  THEN "critical"
  ELSE PairScan(IF \/ Head(pairs).pvolStatus \in pairWarnStatuses
                   \/ Head(pairs).svolStatus \in pairWarnStatuses
                THEN PairWarning(status) ELSE status,
                Tail(pairs))

OverallStatus(journals, pairs) ==
  PairScan(JournalScan("normal", journals), pairs)

\* cgJournals.reduce((sum, j) => sum + (j.numOfLdevs || 0), 0)
RECURSIVE SumLdevs(_)
SumLdevs(journals) ==
  IF journals = <<>> THEN 0
  ELSE Head(journals).numOfLdevs + SumLdevs(Tail(journals))

VolumeCount_PairsOnly(journals, pairs) == Len(pairs)

\* the pair count, or the ldev counts of the journals when no pair was found
VolumeCount(journals, pairs) ==
  IF Len(pairs) = 0 /\ Len(journals) > 0 THEN SumLdevs(journals)
  ELSE Len(pairs)

\* one turn of the loop over allCgIds
DeriveGroup ==
  /\ ~grp.done
  /\ grp' = [grp EXCEPT
               !.done = TRUE,
               !.overallStatus = OverallStatus(grp.journals, grp.pairs),
               !.volumeCount = VolumeCount(grp.journals, grp.pairs)]
  /\ lastOp' = Op("deriveGroup", "-", 0, 0)
  /\ UNCHANGED <<envVars, smVars, now, alerts, pollVars, retry, cleanup, proc,
                 pager, db, disc, ps, rpo, dcg, calc, destroy>>

\* what one discoverConsistencyGroups call leaves alone
notGroups == <<envVars, smVars, now, alerts, pollVars, retry, cleanup, proc,
               pager, ps, rpo, grp, calc, destroy>>

IdleGroups ==
  [pc |-> "idle", e |-> "-", pairs |-> 0, others |-> <<>>, groups |-> <<>>,
   noConfig |-> FALSE, pairsFailed |-> FALSE, copyFailed |-> FALSE,
   sessionFailed |-> FALSE, journalsFailed |-> FALSE]

QueryCaught_Never(step) == FALSE

\* the try/catch around discoverPairs, around discoverCopyGroups and around
\* getJournals
QueryCaught(step) == TRUE

\* the authenticated arrays other than e
OtherStorages(e) == SelectSeq(AuthStorages, LAMBDA r : r # e)

\* discoverConsistencyGroups after the pair query: without pairs the copy
\* groups with every other authenticated array are asked for
AfterPairs(g) ==
  IF g.pairs = 0 /\ OtherStorages(g.e) # <<>>
  THEN [g EXCEPT !.pc = "copyGroups", !.others = OtherStorages(g.e)]
  ELSE [g EXCEPT !.pc = "session"]

\* discoverConsistencyGroups is called by the loop of runFullDiscovery: it
\* throws without an API configuration, else discoverPairs is awaited
DiscoverConsistencyGroups ==
  /\ disc.pc = "arrays"
  /\ dcg.pc \in {"idle", "returned", "thrown"}
  /\ IF apiConfig
     THEN /\ dcg' = [IdleGroups EXCEPT !.pc = "pairs", !.e = CurrentStorage]
          /\ UNCHANGED disc
     ELSE /\ dcg' = [IdleGroups EXCEPT !.pc = "thrown", !.e = CurrentStorage,
                                       !.noConfig = TRUE]
          /\ disc' = AfterArray(disc, CurrentStorage, FALSE)
  /\ lastOp' = Op(IF apiConfig THEN "discoverGroups" ELSE "groupsNoConfig",
                  CurrentStorage, 0, 0)
  /\ UNCHANGED <<notGroups, db>>

\* discoverPairs settles, with n UR pairs or with an exception
GroupsPairs(ok, n) ==
  /\ dcg.pc = "pairs"
  /\ ~ok => n = 0
  /\ IF ok \/ QueryCaught("pairs")
     THEN /\ dcg' = AfterPairs([dcg EXCEPT !.pairs = n, !.pairsFailed = ~ok])
          /\ UNCHANGED disc
     ELSE /\ dcg' = [dcg EXCEPT !.pc = "thrown", !.pairsFailed = TRUE]
          /\ disc' = AfterArray(disc, dcg.e, FALSE)
  /\ lastOp' = Op(IF ok THEN "groupsPairs" ELSE "groupsPairsFailed",
                  dcg.e, 0, n)
  /\ UNCHANGED <<notGroups, db>>

\* discoverCopyGroups with one other array settles, with n pairs or with an
\* exception
GroupsCopyGroups(ok, n) ==
  /\ dcg.pc = "copyGroups"
  /\ ~ok => n = 0
  /\ IF ok \/ QueryCaught("copyGroups")
     THEN /\ dcg' = [dcg EXCEPT
                       !.pairs = @ + n,
                       !.copyFailed = @ \/ ~ok,
                       !.others = Tail(@),
                       !.pc = IF Tail(dcg.others) = <<>> THEN "session"
                              ELSE "copyGroups"]
          /\ UNCHANGED disc
     ELSE /\ dcg' = [dcg EXCEPT !.pc = "thrown", !.copyFailed = TRUE]
          /\ disc' = AfterArray(disc, dcg.e, FALSE)
  /\ lastOp' = Op(IF ok THEN "groupsCopyGroups" ELSE "groupsCopyGroupsFailed",
                  dcg.e, 0, n)
  /\ UNCHANGED <<notGroups, db>>

\* getSession settles: without a session discoverConsistencyGroups throws
\* and runFullDiscovery records the array
GroupsSession(ok) ==
  /\ dcg.pc = "session"
  /\ IF ok
     THEN /\ dcg' = [dcg EXCEPT !.pc = "journals"]
          /\ UNCHANGED disc
     ELSE /\ dcg' = [dcg EXCEPT !.pc = "thrown", !.sessionFailed = TRUE]
          /\ disc' = AfterArray(disc, dcg.e, FALSE)
  /\ lastOp' = Op(IF ok THEN "groupsSession" ELSE "groupsSessionFailed",
                  dcg.e, 0, 0)
  /\ UNCHANGED <<notGroups, db>>

\* the groups that can be built from what the queries gave: groups with
\* volumes need pairs, groups without volumes need journals
Buildable(g, journalsOk, groups) ==
  \A i \in 1..Len(groups) :
    IF groups[i].volumes = <<>> THEN journalsOk ELSE g.pairs > 0

\* getJournals settles: the groups are built from the pairs and the journals
\* there are and returned, and runFullDiscovery saves them when there are any
GroupsJournals(ok, groups) ==
  /\ dcg.pc = "journals"
  /\ Buildable(dcg, ok, groups)
  /\ IF ok \/ QueryCaught("journals")
     THEN /\ dcg' = [dcg EXCEPT !.pc = "returned", !.groups = groups,
                                !.journalsFailed = ~ok]
          /\ disc' = AfterArray(disc, dcg.e, TRUE)
          /\ db' = IF Len(groups) > 0 THEN Saved(db, dcg.e, groups) ELSE db
     ELSE /\ dcg' = [dcg EXCEPT !.pc = "thrown", !.journalsFailed = TRUE]
          /\ disc' = AfterArray(disc, dcg.e, FALSE)
          /\ UNCHANGED db
  /\ lastOp' = Op(IF ok THEN "groupsJournals" ELSE "groupsJournalsFailed",
                  dcg.e, 0, Len(groups))
  /\ UNCHANGED notGroups

\* ---------------------------------------------------------- rpoCalculator.js

\* the severity calculateJournalRpo gives a usage rate
Severity(usageRate) ==
  IF usageRate >= 20 THEN "critical"
  ELSE IF usageRate >= 5 THEN "warning" ELSE "normal"

\* const severityOrder = { normal: 0, warning: 1, critical: 2 }
severityOrder == [normal |-> 0, warning |-> 1, critical |-> 2]

EmptyGroupRpo ==
  [volumeCount |-> 0, worstUsageRate |-> 0, totalPendingDataBytes |-> 0,
   worstEstimatedRpoSeconds |-> 0, totalQCount |-> 0,
   worstSeverity |-> "normal"]

NoTrend == [trend |-> "-", changeRate |-> 0, dataPoints |-> 0]

IdleCalc ==
  [volumes |-> <<>>, history |-> <<>>, done |-> FALSE,
   group |-> EmptyGroupRpo, trend |-> NoTrend]

Worst_Last(worst, v) == v

\* if (vol.x > worst) worst = vol.x
Worst(worst, v) == IF v > worst THEN v ELSE worst

\* one turn of the loop of aggregateGroupRpo
AggregateStep(acc, vol) ==
  [acc EXCEPT
     !.worstUsageRate = Worst(@, vol.usageRate),
     !.worstEstimatedRpoSeconds = Worst(@, vol.estimatedRpoSeconds),
     !.totalPendingDataBytes = @ + vol.pendingDataBytes,
     !.totalQCount = @ + vol.qCount,
     !.worstSeverity = IF severityOrder[vol.severity] > severityOrder[@]
                       THEN vol.severity ELSE @]

RECURSIVE AggregateLoop(_, _)
AggregateLoop(acc, volumeRpos) ==
  IF volumeRpos = <<>> THEN acc
  ELSE AggregateLoop(AggregateStep(acc, Head(volumeRpos)), Tail(volumeRpos))

\* aggregateGroupRpo(volumeRpos), without the copy of its argument
AggregateGroupRpo(volumeRpos) ==
  IF Len(volumeRpos) = 0 THEN EmptyGroupRpo
  ELSE AggregateLoop([EmptyGroupRpo EXCEPT !.volumeCount = Len(volumeRpos)],
                     volumeRpos)

\* the sums of the regression loop of determineTrend over indices 0..n-1
RECURSIVE TrendSums(_, _)
TrendSums(h, n) ==
  IF n = 0 THEN [sumX |-> 0, sumY |-> 0, sumXY |-> 0, sumXX |-> 0]
  ELSE LET s == TrendSums(h, n - 1) IN
       [sumX  |-> s.sumX + (n - 1),
        sumY  |-> s.sumY + h[n],
        sumXY |-> s.sumXY + (n - 1) * h[n],
        sumXX |-> s.sumXX + (n - 1) * (n - 1)]

\* threshold = 0.05, as the fraction 1 / THRESHOLD_INVERSE
THRESHOLD_INVERSE == 20

\* Math.round(changeRate * 10000), with changeRate = num / den and den > 0
RoundTenThousandths(num, den) == (2 * 10000 * num + den) \div (2 * den)

ChangeRate_Raw(slopeNum, slopeDen, sumY, n) ==
  [num |-> slopeNum, den |-> slopeDen]

\* changeRate = meanQCount > 0 ? slope / meanQCount : 0, as a fraction with a
\* positive denominator; slope = slopeNum / slopeDen, meanQCount = sumY / n
ChangeRate(slopeNum, slopeDen, sumY, n) ==
  IF sumY > 0 THEN [num |-> slopeNum * n, den |-> slopeDen * sumY]
  ELSE [num |-> 0, den |-> 1]

\* determineTrend(historicalQCounts) with the default threshold; changeRate
\* is held in ten-thousandths
DetermineTrend(h) ==
  LET n == Len(h)
      s == TrendSums(h, n)
      denominator == n * s.sumXX - s.sumX * s.sumX
      r == ChangeRate(n * s.sumXY - s.sumX * s.sumY, denominator, s.sumY, n)
  IN IF n < 2 \/ denominator = 0
     THEN [trend |-> "stable", changeRate |-> 0, dataPoints |-> n]
     ELSE [trend |-> IF THRESHOLD_INVERSE * r.num > r.den THEN "increasing"
                     ELSE IF THRESHOLD_INVERSE * r.num < -r.den
                     THEN "decreasing" ELSE "stable",
           changeRate |-> RoundTenThousandths(r.num, r.den),
           dataPoints |-> n]

\* everything but the calculator
notCalc == <<envVars, smVars, now, alerts, pollVars, retry, cleanup, proc,
             pager, db, disc, ps, rpo, grp, dcg, destroy>>

\* a caller aggregates the metrics of the volumes of a group
AggregateCall ==
  /\ ~calc.done
  /\ calc' = [calc EXCEPT !.done = TRUE,
                          !.group = AggregateGroupRpo(calc.volumes)]
  /\ lastOp' = Op("aggregateGroupRpo", "-", 0, 0)
  /\ UNCHANGED notCalc

\* a caller asks for the trend of a history of qCount values
TrendCall ==
  /\ ~calc.done
  /\ calc' = [calc EXCEPT !.done = TRUE,
                          !.trend = DetermineTrend(calc.history)]
  /\ lastOp' = Op("determineTrend", "-", 0, 0)
  /\ UNCHANGED notCalc

\* ------------------------------------------------------------ specification

\* lists of at most two entries
UpToTwo(S) == {<<>>} \cup {<<a>> : a \in S} \cup {<<a, b>> : a, b \in S}

\* journals of a group: in order, in warning, in error; with their ldevs
GroupJournals ==
  [journalStatus : {"PJNN", "PJSN", "PJSF"}, numOfLdevs : {0, 2}]

GroupPairs ==
  [pvolStatus : {"PAIR", "PSUS", "PSUE"}, svolStatus : {"PAIR", "SSWS", "SSUE"}]

InitBase ==
  /\ apiConfig = FALSE
  /\ authenticated = [e \in Endpoints |-> FALSE]
  /\ live = {}
  /\ nextSid = 1
  /\ sessions = [e \in Endpoints |-> NoSession]
  /\ timers = {}
  /\ calls = [c \in Callers |-> IdleCall]
  /\ renewals = {}
  /\ now = 0
  /\ lastOp = Op("init", "-", 0, 0)
  /\ alerts = <<>>
  /\ cronJob = FALSE
  /\ interval = [setting |-> Num(DEFAULT_INTERVAL_SECONDS), minutes |-> 0,
                 jobs |-> 0]
  /\ isPolling = FALSE
  /\ lastPollTime = NoTime
  /\ lastPollError = NoError
  /\ cyc = [i \in Invokers |-> IdleCycle]
  /\ hist = NoHist
  /\ retry = IdleRetry
  /\ cleanup = IdleCleanup
  /\ proc = "running"
  /\ db = EmptyDb
  /\ disc = IdleDiscovery
  /\ ps = IdleStorage
  /\ rpo = <<>>
  /\ dcg = IdleGroups
  /\ destroy = IdleDestroy

Init ==
  /\ InitBase
  /\ pager = IdlePager
  /\ grp = NoGroup
  /\ calc = IdleCalc

\* the group has any journals and pairs
InitGroup ==
  /\ InitBase
  /\ pager = IdlePager
  /\ grp \in {[NoGroup EXCEPT !.journals = j, !.pairs = p] :
                j \in UpToTwo(GroupJournals), p \in UpToTwo(GroupPairs)}
  /\ calc = IdleCalc

\* the array holds any set of pairs
InitPairs ==
  /\ InitBase
  /\ grp = NoGroup
  /\ pager \in {[IdlePager EXCEPT !.array = a] : a \in ArrayContents}
  /\ calc = IdleCalc

\* the metrics calculateJournalRpo gives a volume: usage below, at and above
\* the thresholds
VolumeRpos ==
  {[usageRate |-> u, estimatedRpoSeconds |-> e, pendingDataBytes |-> p,
    qCount |-> q, severity |-> Severity(u)] :
     u \in {0, 5, 20}, e \in {0, 3}, p \in {0, 4}, q \in {0, 2}}

\* lists of at most n entries
UpTo(S, n) == UNION {[1..k -> S] : k \in 0..n}

InitAggregate ==
  /\ InitBase
  /\ pager = IdlePager
  /\ grp = NoGroup
  /\ calc \in {[IdleCalc EXCEPT !.volumes = v] : v \in UpTo(VolumeRpos, MaxVolumes)}

SpecAggregate == InitAggregate /\ [][AggregateCall]_vars

\* qCount readings: none pending, close readings, and steps of a hundred
QCounts == {0, 100, 105, 106, 200, 300, 400, 500}

InitTrend ==
  /\ InitBase
  /\ pager = IdlePager
  /\ grp = NoGroup
  /\ calc \in {[IdleCalc EXCEPT !.history = h] : h \in UpTo(QCounts, MaxPoints)}

SpecTrend == InitTrend /\ [][TrendCall]_vars

\* manual cycles over the authenticated arrays while time passes and the
\* renewal timers fire
HeldNext ==
  \/ ApiConfigChange(TRUE)
  \/ \E e \in Endpoints : CredentialsChange(e, TRUE)
  \/ PollNow
  \/ PollSessionCreated("manual")
  \/ \E ok \in BOOLEAN : PollRefreshDone("manual", ok)
  \/ PollJournalsDone("manual", <<>>)
  \/ \E ok \in BOOLEAN : PollPairsDone("manual", ok)
  \/ Tick
  \/ \E t \in timers : TimerFire(t)
  \/ \E r \in renewals : RenewCreated(r)
  \/ \E r \in renewals : RenewDeleted(r)
  \/ \E r \in renewals : RenewDeleteFailed(r)

SpecHeld == Init /\ [][HeldNext]_vars

\* destroySession beside getSession calls of two callers
DestroyNext ==
  \/ \E b \in BOOLEAN : ApiConfigChange(b)
  \/ \E e \in Endpoints : CredentialsChange(e, TRUE)
  \/ \E c \in Callers, e \in Endpoints : GetSessionStart(c, e)
  \/ \E c \in Callers : GetSessionCreated(c)
  \/ \E c \in Callers : GetSessionFailed(c)
  \/ \E e \in Endpoints : DestroySession(e)
  \/ \E ok \in BOOLEAN : DestroyAnswer(ok)

SpecDestroy == Init /\ [][DestroyNext]_vars

Next ==
  \/ \E c \in Callers, e \in Endpoints : GetSessionStart(c, e)
  \/ \E c \in Callers : GetSessionCreated(c)
  \/ \E c \in Callers : GetSessionFailed(c)
  \/ \E l \in Endpoints, r \in Endpoints : GetRemoteSessionStart(l, r)
  \/ \E t \in timers : TimerFire(t)
  \/ \E r \in renewals : RenewCreated(r)
  \/ \E r \in renewals : RenewCreateFailed(r)
  \/ \E r \in renewals : RenewDeleted(r)
  \/ \E r \in renewals : RenewDeleteFailed(r)
  \/ Tick
  \/ \E b \in BOOLEAN : ApiConfigChange(b)
  \/ \E e \in Endpoints, b \in BOOLEAN : CredentialsChange(e, b)

Spec == Init /\ [][Next]_vars

EnvNext ==
  \/ \E b \in BOOLEAN : ApiConfigChange(b)
  \/ \E e \in Endpoints, b \in BOOLEAN : CredentialsChange(e, b)

\* the poller under every order of ticks, manual calls and answers; the
\* journal answers raise no alert
PollerNext ==
  \/ CronTick
  \/ PollNow
  \/ StartPolling
  \/ StopPolling
  \/ \E i \in Invokers : PollSessionCreated(i)
  \/ \E i \in Invokers : PollSessionFailed(i)
  \/ \E i \in Invokers, ok \in BOOLEAN : PollRefreshDone(i, ok)
  \/ \E i \in Invokers : PollJournalsFailed(i)
  \/ \E i \in Invokers : PollJournalsDone(i, <<>>)
  \/ \E i \in Invokers, ok \in BOOLEAN : PollPairsDone(i, ok)
  \/ EnvNext

\* the poller, with cycles that end in an exception
GuardNext ==
  \/ PollerNext
  \/ \E i \in {"cron", "manual"} : PollCycleThrew(i)

SpecGuard == Init /\ [][GuardNext]_vars

\* manual cycles over one authenticated storage with every journal answer,
\* and acknowledgements
AlertsNext ==
  \/ ApiConfigChange(TRUE)
  \/ CredentialsChange("A", TRUE)
  \/ PollNow
  \/ PollSessionCreated("manual")
  \/ PollRefreshDone("manual", TRUE)
  \/ \E l \in JournalLists : PollJournalsDone("manual", l)
  \/ PollPairsDone("manual", TRUE)
  \/ \E id \in 1..MaxAlerts : Acknowledge(id)

SpecAlerts == Init /\ [][AlertsNext]_vars

\* one vendor call after another, with every answer to every attempt
RetryNext ==
  \/ WithRetry
  \/ \E s \in Responses : RetryAnswer(s)
  \/ RetryBackoffDone

SpecRetry == Init /\ [][RetryNext]_vars

PairsNext ==
  \/ DiscoverPairs
  \/ PairsAnswer
  \/ PairsFailed

SpecPairs == InitPairs /\ [][PairsNext]_vars

\* pairs of a batch: without a volume id, with the smallest and with the
\* largest one
BatchPairs ==
  {[pvolLdevId |-> i, replicationType |-> "UR"] : i \in {Null, 0, MaxLdev}}

Batches == UNION {[1..n -> BatchPairs] : n \in 0..BATCH_SIZE}

BatchesNext ==
  \/ DiscoverPairs
  \/ \E pairs \in Batches : PairsBatch(pairs)
  \/ PairsFailed

SpecBatches == Init /\ [][BatchesNext]_vars

SaveNext ==
  \E e \in Endpoints : \E groups \in DiscoveryResults :
     SaveConsistencyGroups(e, groups)

SpecSave == Init /\ [][SaveNext]_vars

\* the results one array gives in the runs of a full discovery
FewResults ==
  {g \in DiscoveryResults :
     \A i \in 1..Len(g) : /\ g[i].consistencyGroupId = 1
                          /\ Len(g[i].volumes) < 2}

DiscoveryNext ==
  \/ \E b \in BOOLEAN : ApiConfigChange(b)
  \/ \E e \in Endpoints : \E b \in BOOLEAN : CredentialsChange(e, b)
  \/ RunFullDiscovery
  \/ StoragesFailed
  \/ \E configured \in BOOLEAN : StoragesAnswer(configured)
  \/ \E ok \in BOOLEAN : ProtectorAuthAnswer(ok)
  \/ \E o \in ProtectorOutcomes \ {"unconfigured", "authFailed"} :
        ProtectorDataAnswer(o)
  \/ \E groups \in FewResults : ArrayDiscovered(groups)
  \/ ArrayFailed

SpecDiscovery == Init /\ [][DiscoveryNext]_vars

\* pairs a query can give
PairCounts == {0, 1}

\* a full discovery with every discoverConsistencyGroups call in detail
ArraysNext ==
  \/ \E b \in BOOLEAN : ApiConfigChange(b)
  \/ \E e \in Endpoints : \E b \in BOOLEAN : CredentialsChange(e, b)
  \/ RunFullDiscovery
  \/ StoragesFailed
  \/ StoragesAnswer(FALSE)
  \/ DiscoverConsistencyGroups
  \/ \E ok \in BOOLEAN : \E n \in PairCounts : GroupsPairs(ok, n)
  \/ \E ok \in BOOLEAN : \E n \in PairCounts : GroupsCopyGroups(ok, n)
  \/ \E ok \in BOOLEAN : GroupsSession(ok)
  \/ \E ok \in BOOLEAN : \E groups \in FewResults : GroupsJournals(ok, groups)

SpecArrays == Init /\ [][ArraysNext]_vars

GroupNext == DeriveGroup

SpecGroup == InitGroup /\ [][GroupNext]_vars

\* what the settings row can hold, as parseInt reads it
SettingValues ==
  {NoSetting, NaN} \cup {Num(n) : n \in {-60, 0, 29, 30, 60, 89, 90, 300, 3600}}

\* arguments of setInterval, in half minutes
HalfMinutes == {NaN} \cup {Num(n) : n \in {-2, 0, 1, 2, 3, 10}}

IntervalNext ==
  \/ CronTick
  \/ StartPolling
  \/ StopPolling
  \/ \E minutes \in HalfMinutes : SetInterval(minutes)
  \/ \E value \in SettingValues : PutSettings(value)

SpecInterval == Init /\ [][IntervalNext]_vars


Deltas == {512}

\* one group with one journal: usage below and above the thresholds, an
\* unused mirror and a mirror in use
StorageEntries ==
  [cg : {1}, journalId : {1}, usageRate : {0, 20},
   journalStatus : {"SMPL", "PJNN"}]

StoragePairList ==
  [cg : {1}, replicationType : PairTypes, status : {"PAIR"}]

StorageNext ==
  \/ PollStorage
  \/ \E ok \in BOOLEAN : StorageSession(ok)
  \/ \E ok \in BOOLEAN : StorageRefresh(ok)
  \/ \E kind \in {"basic", "detail"} : \E ok \in BOOLEAN :
        \E list \in UpToTwo(StorageEntries) : StorageJournals(kind, ok, list)
  \/ \E page \in UpToTwo(StoragePairList) : StoragePairs(page)
  \/ StoragePairsFailed
  \/ \E outcome \in LdevOutcomes : \E delta \in Deltas :
        StorageLdev(outcome, delta)

SpecStorage == Init /\ [][StorageNext]_vars

\* two groups, journals 0 and 1, every mirror in use
SampleEntries ==
  [cg : CgIds, journalId : {0, 1}, usageRate : {0}, journalStatus : {"PJNN"}]

SamplePairList ==
  [cg : CgIds, replicationType : {"UR"}, status : {"PAIR"}]

SamplesNext ==
  \/ PollStorage
  \/ StorageSession(TRUE)
  \/ StorageRefresh(TRUE)
  \/ \E kind \in {"basic", "detail"} :
        \E list \in UpToTwo(SampleEntries) : StorageJournals(kind, TRUE, list)
  \/ \E page \in UpToTwo(SamplePairList) : StoragePairs(page)
  \/ \E outcome \in LdevOutcomes : \E delta \in Deltas :
        StorageLdev(outcome, delta)

SpecSamples == Init /\ [][SamplesNext]_vars

\* discovery runs and the operator's changes of the monitored flag
MonitoringNext ==
  \/ \E e \in Endpoints : \E groups \in FewResults :
        SaveConsistencyGroups(e, groups)
  \/ \E cgId \in CgIds : \E m \in BOOLEAN : PatchGroup(cgId, m)

SpecMonitoring == Init /\ [][MonitoringNext]_vars

\* cleanupAllSessions called at any time while getSession calls create and
\* cache sessions; every deleteSession attempt gets every answer
CleanupNext ==
  \/ \E b \in BOOLEAN : ApiConfigChange(b)
  \/ \E e \in Endpoints : CredentialsChange(e, TRUE)
  \/ \E c \in Callers, e \in Endpoints : GetSessionStart(c, e)
  \/ \E c \in Callers : GetSessionCreated(c)
  \/ CleanupAllSessions
  \/ \E d \in cleanup.pending, s \in Responses : CleanupDeleteAnswer(d, s)

SpecCleanup == Init /\ [][CleanupNext]_vars

\* every attempt is answered: a request times out after 30 s and a backoff
\* timer fires
CleanupAnswered ==
  \E d \in cleanup.pending, s \in Responses : CleanupDeleteAnswer(d, s)

SpecCleanupFair == SpecCleanup /\ WF_vars(CleanupAnswered)

Alive == proc # "exited"

\* the poller and the signals of the process; nothing runs after the exit
ShutdownNext ==
  \/ Alive /\ CronTick
  \/ Alive /\ PollNow
  \/ Alive /\ StartPolling
  \/ Alive /\ StopPolling
  \/ \E i \in Invokers : Alive /\ PollSessionCreated(i)
  \/ \E i \in Invokers : Alive /\ PollSessionFailed(i)
  \/ \E i \in Invokers, ok \in BOOLEAN : Alive /\ PollRefreshDone(i, ok)
  \/ \E i \in Invokers : Alive /\ PollJournalsFailed(i)
  \/ \E i \in Invokers : Alive /\ PollJournalsDone(i, <<>>)
  \/ \E i \in Invokers, ok \in BOOLEAN : Alive /\ PollPairsDone(i, ok)
  \/ Alive /\ ApiConfigChange(TRUE)
  \/ \E e \in Endpoints : Alive /\ CredentialsChange(e, TRUE)
  \/ GracefulShutdown
  \/ ServerClosed
  \/ ForcedExit

SpecShutdown == Init /\ [][ShutdownNext]_vars

SpecPoller == Init /\ [][PollerNext]_vars

TypeOK ==
  /\ apiConfig \in BOOLEAN
  /\ nextSid \in 1..(MaxSessions + 1)
  /\ live \subseteq 1..MaxSessions
  /\ now \in 0..MaxTime

\* answers of the array arrive: every call has a timeout and a bounded
\* number of retries
PollAnswer ==
  \/ \E i \in Invokers : PollSessionCreated(i)
  \/ \E i \in Invokers : PollSessionFailed(i)
  \/ \E i \in Invokers, ok \in BOOLEAN : PollRefreshDone(i, ok)
  \/ \E i \in Invokers : PollJournalsFailed(i)
  \/ \E i \in Invokers : PollJournalsDone(i, <<>>)
  \/ \E i \in Invokers, ok \in BOOLEAN : PollPairsDone(i, ok)

SpecPollerFair == SpecPoller /\ WF_vars(PollAnswer)

\* ------------------------------------------------------------------ claims

Range(f) == {f[i] : i \in DOMAIN f}

ActiveCycles == {i \in Invokers : cyc[i].pc # "idle"}

\* the storages whose processing failed in the most recent cycle
FailedStorages == Range(hist.errors) \cup hist.journalFailed

CycleOver == lastOp.op \in {"cycleEnd", "cycleNoConfig", "cycleNoStorages"}

\* C1: at most one pollCycle invocation is past the guard at any time; an
\* invocation that finds a cycle in progress changes nothing of the poller,
\* the store or the sessions, and when the running cycle ends no other cycle
\* is left started.
C1_SingleCycle ==
  /\ [](Cardinality(ActiveCycles) <= 1 /\ (isPolling <=> ActiveCycles # {}))
  /\ [][lastOp'.op = "pollSkipped" =>
          /\ isPolling
          /\ UNCHANGED <<envVars, smVars, now, alerts, isPolling, lastPollTime,
                         lastPollError, cyc, hist>>]_vars
  /\ [][lastOp'.op = "cycleEnd" => ActiveCycles' = {} /\ ~isPolling']_vars

C1_Witness ==
  /\ lastOp.op = "pollSkipped"
  /\ \E i \in Invokers : cyc[i].pc \in {"createSession", "journals"}

\* C2: when a cycle ends, pollStorage was started for every storage of the
\* cycle, in order, also for the storages that come after one that failed.
C2_LaterStoragesProcessed ==
  lastOp.op = "cycleEnd" => hist.visited = hist.storages

C2_Witness ==
  /\ lastOp.op = "cycleEnd"
  /\ Len(hist.storages) = 2
  /\ hist.storages[1] \in FailedStorages
  /\ hist.visited[2] = hist.storages[2]

C4_ErrorSummaryExact ==
  CycleOver => Range(lastPollError) = FailedStorages

\* C5: createAlert inserts a row exactly when no unacknowledged row with the
\* same (cg, type, severity) exists, and no two unacknowledged rows share
\* (cg, type, severity).
Unacked(rows, k) ==
  \E i \in 1..Len(rows) : AlertKey(rows[i]) = k /\ ~rows[i].ack

AllKeys ==
  Groups \X {"usage_rate_critical", "usage_rate_warning", "journal_status_error"}
         \X {"critical", "warning"}

C5_AlertDedup ==
  /\ [](\A i, j \in 1..Len(alerts) :
          (i # j /\ ~alerts[i].ack /\ ~alerts[j].ack)
            => AlertKey(alerts[i]) # AlertKey(alerts[j]))
  /\ [][lastOp'.op = "journals" =>
          /\ SubSeq(alerts', 1, Len(alerts)) = alerts
          /\ \A k \in AllKeys :
               Cardinality({i \in (Len(alerts) + 1)..Len(alerts') :
                              AlertKey(alerts'[i]) = k})
               = IF k \in lastOp'.arg /\ ~Unacked(alerts, k) THEN 1 ELSE 0]_vars

C5_Witness ==
  /\ lastOp.op = "journals"
  /\ \E i, j \in 1..Len(alerts) :
       /\ i < j
       /\ AlertKey(alerts[i]) = AlertKey(alerts[j])
       /\ alerts[i].ack /\ ~alerts[j].ack
  /\ \E k \in lastOp.arg : Cardinality({i \in 1..Len(alerts) : AlertKey(alerts[i]) = k}) = 1

\* the cached entry of e is within its window: its age is below
\* aliveTime - 60 seconds
Fresh(entry) ==
  /\ entry # NoSession
  /\ now - entry.createdAt < entry.aliveTime - 60

GetSessionThrows == {"getSessionNoConfig", "getSessionNoCreds", "getSessionFail"}
GetSessionStarts ==
  {"getSessionHit", "getSessionNoConfig", "getSessionNoCreds", "getSessionCreate"}
RenewalFails == {"renewFail", "renewFailSync"}

\* C6: a getSession call that stores a new session never replaces a cached
\* session that is still within its window: such a session would stay alive
\* on the array, neither cached nor deleted.
C6_NoLeakedSession ==
  lastOp.op = "getSessionNew" => ~Fresh(lastOp.arg)

\* C7, the part both statements share: getSession returns the cached session,
\* creating nothing, exactly when the entry of e is within its window, and a
\* session it creates becomes the entry of e with a renewal timer.
C7_HitExactly ==
  /\ [](lastOp.op = "getSessionHit" =>
          /\ Fresh(sessions[lastOp.e])
          /\ lastOp.sid = sessions[lastOp.e].sessionId)
  /\ [](lastOp.op \in GetSessionStarts \ {"getSessionHit"} =>
          ~Fresh(sessions[lastOp.e]))
  /\ [][\A c \in Callers :
          (calls[c].pc = "idle" /\ calls'[c].pc = "creating")
            => ~Fresh(sessions[calls'[c].e])]_vars
  /\ [][lastOp'.op = "getSessionHit" =>
          UNCHANGED <<live, nextSid, sessions, timers, calls>>]_vars
  /\ [](lastOp.op = "getSessionNew" =>
          /\ sessions[lastOp.e].sessionId = lastOp.sid
          /\ sessions[lastOp.e].createdAt = now
          /\ lastOp.sid \in live
          /\ \E t \in timers : t.id = lastOp.sid /\ t.e = lastOp.e)

\* C7 as stated: ..., and every getSession call that does not return the
\* cached session creates one.
C7_Original ==
  /\ C7_HitExactly
  /\ [](lastOp.op \notin GetSessionThrows)

\* C7 amended: ...; in every other case getSession creates a session, stores
\* it as the entry of e and schedules its renewal, provided an API
\* configuration and authenticated credentials for e exist and the array
\* creates the session; otherwise it throws, and cache, timers and array are
\* as they were.
C7_Amended ==
  /\ C7_HitExactly
  /\ [](lastOp.op = "getSessionNoConfig" => ~apiConfig)
  /\ [](lastOp.op = "getSessionNoCreds" => apiConfig /\ ~authenticated[lastOp.e])
  /\ [](lastOp.op = "getSessionCreate" => apiConfig /\ authenticated[lastOp.e])
  /\ [][lastOp'.op \in GetSessionThrows =>
          UNCHANGED <<live, nextSid, sessions, timers>>]_vars

C7_Witness ==
  /\ lastOp.op = "getSessionNew"
  /\ lastOp.arg # NoSession
  /\ now - lastOp.arg.createdAt = lastOp.arg.aliveTime - 60

\* C8: a renewal stores the replacement as the entry of e once the array has
\* created it, with the old session not yet deleted; the deletion of the old
\* session is answered only after the swap, and a failed deletion changes
\* neither the cache nor the timers.
C8_RenewalOrder ==
  /\ [][lastOp'.op = "renewStart" => UNCHANGED <<sessions, live, nextSid>>]_vars
  /\ [](lastOp.op = "renewSwap" =>
          /\ sessions[lastOp.e].sessionId = lastOp.sid
          /\ lastOp.sid \in live
          /\ lastOp.arg # 0 =>
               \E r \in renewals : /\ r.pc = "deleting" /\ r.old = lastOp.arg
                                   /\ r.new = lastOp.sid /\ r.e = lastOp.e)
  /\ [][lastOp'.op = "renewSwap" =>
          (lastOp'.arg \in live => lastOp'.arg \in live')]_vars
  /\ [](lastOp.op \in {"renewDeleted", "renewDeleteFailed"} =>
          sessions[lastOp.e].sessionId # lastOp.arg)
  /\ [][lastOp'.op = "renewDeleteFailed" =>
          UNCHANGED <<sessions, timers, live>>]_vars

C8_Witness ==
  /\ lastOp.op = "renewDeleteFailed"
  /\ sessions[lastOp.e].sessionId = lastOp.sid
  /\ lastOp.arg \in live

\* C9: the timer of a cached entry is due max(aliveTime - 60, 30) seconds
\* after the entry was created, 240 seconds for the default, and a timer
\* callback never runs earlier than that.
C9_RenewalDelay ==
  /\ \A t \in timers :
       /\ t.due = t.at + Max(DEFAULT_ALIVE_TIME - 60, 30)
       /\ t.due = t.at + 240
       /\ sessions[t.e].renewalTimer = t.id =>
            t.due = sessions[t.e].createdAt
                      + Max(sessions[t.e].aliveTime - 60, 30)
  /\ lastOp.op \in {"renewStart", "renewFailSync"} => now >= lastOp.arg + 240

C9_Witness ==
  /\ lastOp.op = "renewStart"
  /\ now = lastOp.arg + 240

C16_ClientErrorFatal ==
  \A i \in 1..Len(retry.statuses) :
    (retry.statuses[i] >= 400 /\ retry.statuses[i] <= 499
       /\ retry.statuses[i] \notin {408, 429})
    => /\ i = Len(retry.statuses)
       /\ retry.pc = "thrown"
       /\ Len(retry.waits) = i - 1
       /\ retry.error = [status |-> retry.statuses[i], response |-> TRUE]

C16_Witness ==
  /\ retry.pc = "thrown"
  /\ retry.statuses \in {<<401>>, <<403>>}
  /\ retry.waits = <<>>
  /\ retry.error.response

\* a step that is a call of cleanupAllSessions
CleanupCalled == cleanup.pc = "idle" /\ lastOp'.op \in {"cleanupStart", "cleanupReturn"}

\* the sessions cached before the step
CachedBefore == {sessions[e].sessionId : e \in {x \in Endpoints : sessions[x] # NoSession}}

\* C12, the part both statements share: a call cancels exactly the renewal
\* timers of the cached sessions, and whenever cleanupAllSessions returns,
\* after deletions that succeeded or failed, the cache is empty.
C12_TimersAndCache ==
  /\ [][CleanupCalled =>
          /\ cleanup'.snapshot = CachedBefore
          /\ timers' = {t \in timers : t.id \notin CachedBefore}]_vars
  /\ [](lastOp.op = "cleanupReturn" =>
          /\ \A e \in Endpoints : sessions[e] = NoSession
          /\ cleanup.pc = "idle" /\ cleanup.pending = {})
  /\ [](cleanup.pc = "waiting" => cleanup.pending # {})

C13_CleanupTerminates ==
  /\ [](\A d \in cleanup.pending : d.attempt <= 3)
  /\ [](cleanup.attempts <= 4 * Cardinality(cleanup.snapshot))
  /\ (cleanup.pc = "waiting" ~> cleanup.pc = "idle")

C13_Witness ==
  /\ lastOp.op = "cleanupReturn"
  /\ Cardinality(cleanup.snapshot) = 2
  /\ cleanup.attempts = 8
  /\ cleanup.snapshot \subseteq live

\* C14: when the process exits after a graceful shutdown the cron job has
\* been stopped and the deletion of every cached session has been requested.
C14_ShutdownOrder ==
  lastOp.op = "exit" =>
    /\ ~cronJob
    /\ \A e \in Endpoints :
         sessions[e] # NoSession => sessions[e].sessionId \in cleanup.asked

\* C17: the first request has headLdevId 0, each later one the volume id of
\* the last pair of the preceding full page plus 1, the loop ends at the
\* first page that is not full, after Len(array) \div BATCH_SIZE + 1
\* requests, and returns exactly the UR pairs of the array, in order.
C17_Pagination ==
  /\ pager.pc # "idle" => pager.heads[1] = 0
  /\ \A i \in 2..Len(pager.heads) :
       /\ (i - 1) * BATCH_SIZE <= Len(pager.array)
       /\ pager.heads[i] = pager.array[(i - 1) * BATCH_SIZE].pvolLdevId + 1
  /\ Len(pager.heads) <= Len(pager.array) \div BATCH_SIZE + 1
  /\ pager.pc = "returned" =>
       /\ Len(pager.heads) = Len(pager.array) \div BATCH_SIZE + 1
       /\ pager.all = SelectSeq(pager.array,
                                LAMBDA q : q.replicationType = "UR")

C17_Witness ==
  /\ pager.pc = "returned"
  /\ Len(pager.array) = 2 * BATCH_SIZE
  /\ Len(pager.heads) = 3
  /\ pager.array[BATCH_SIZE].replicationType # "UR"
  /\ pager.heads[2] > BATCH_SIZE
  /\ Len(pager.all) = 2 * BATCH_SIZE - 1

\* the rows of cg_volumes of one group of one source array
PairRows(cgId, sourceStorageId) ==
  {r \in db.cg_volumes : /\ r.cg_id = cgId
                         /\ r.source_storage_id = sourceStorageId}

SaveReturned == lastOp.op = "saveConsistencyGroups"

\* C19: after a save, the cg_volumes rows of every saved group are exactly
\* the volumes the group was saved with, the empty list included.
C19_PairRowsReplaced ==
  SaveReturned =>
    \A i \in 1..Len(db.saved.groups) :
       PairRows(db.saved.groups[i].consistencyGroupId, db.saved.source)
         = VolumeRows(db.saved.source,
                      db.saved.groups[i].consistencyGroupId,
                      db.saved.groups[i].volumes)

\* C20: consistency_groups never holds two rows with the same cg_id and
\* source_storage_id, and saving what was just saved once more changes no
\* row of either table.
C20_Idempotent ==
  /\ \A i \in 1..Len(db.consistency_groups) :
       \A j \in 1..Len(db.consistency_groups) :
          (/\ db.consistency_groups[i].cg_id = db.consistency_groups[j].cg_id
           /\ db.consistency_groups[i].source_storage_id
                = db.consistency_groups[j].source_storage_id) => i = j
  /\ SaveReturned =>
       LET again == SaveGroups(db, db.saved.source, db.saved.groups)
       IN /\ again.consistency_groups = db.consistency_groups
          /\ again.cg_volumes = db.cg_volumes

\* a result of two groups was saved over rows that were already there, next
\* to the rows of another array
C20_Witness ==
  /\ SaveReturned
  /\ Len(db.saved.groups) = 2
  /\ db.saved.inserted = 0
  /\ Len(db.consistency_groups) = 4
  /\ \E i \in 1..2 : Len(db.saved.groups[i].volumes) = 2

\* the arrays the loop of runFullDiscovery has been through
RanStorages == [i \in 1..Len(disc.ran) |-> disc.ran[i].e]

\* the arrays whose discovery failed, in the order of the loop
FailedArrays ==
  LET failed == SelectSeq(disc.ran, LAMBDA r : ~r.ok)
  IN [i \in 1..Len(failed) |-> failed[i].e]

\* C18: whatever the topology service did, the run goes on to the loop over
\* the authenticated arrays, which takes every one of them in turn, and the
\* errors of the result name the arrays whose own discovery failed and
\* nothing else.
C18_ProtectorOptional ==
  /\ disc.protector # "-" => disc.pc \in {"arrays", "returned"}
  /\ disc.pc = "arrays" =>
       /\ Len(disc.ran) < Len(disc.storages)
       /\ RanStorages = SubSeq(disc.storages, 1, Len(disc.ran))
  /\ disc.pc = "returned" => RanStorages = disc.storages
  /\ disc.errors = FailedArrays
  /\ disc.protectorResults => disc.protector \in {"empty", "data"}

\* the topology service did not answer, and both arrays were discovered
C18_Witness ==
  /\ disc.pc = "returned"
  /\ disc.protector = "noAnswer"
  /\ disc.storages = <<"A", "B">>
  /\ disc.errors = <<>>

\* C21: a save of discovery results leaves the monitored flag of every row
\* that was already stored as it was.
C21_MonitoredFlagKept ==
  [][lastOp'.op = "saveConsistencyGroups" =>
       \A i \in 1..Len(db.consistency_groups) :
          db'.consistency_groups[i].is_monitored
            = db.consistency_groups[i].is_monitored]_vars

\* a row without its two back-filled columns
Method1(row) ==
  [row EXCEPT !.block_delta_bytes = Null, !.pair_status = NoStatus]

\* C22: no step removes a row of rpo_history, and a step that changes a
\* stored row is the block delta of a pair, changes one row only, changes
\* only its block delta and pair status, and that row is the most recent
\* row of the group of the pair.
C22_AppendOnly ==
  [][/\ Len(rpo') >= Len(rpo)
     /\ \A k \in 1..Len(rpo) :
          rpo'[k] # rpo[k] =>
            /\ lastOp'.op = "blockDelta"
            /\ lastOp'.arg = rpo[k].cg_id
            /\ Method1(rpo'[k]) = Method1(rpo[k])
            /\ \A m \in 1..Len(rpo) :
                  /\ m # k => rpo'[m] = rpo[m]
                  /\ rpo[m].cg_id = rpo[k].cg_id => m <= k]_vars

\* C25: whatever the setting holds, the interval startPolling reads from it
\* is a number of minutes that is at least 1, and so is the interval of
\* every scheduled job.
C25_IntervalClamped ==
  /\ cronJob => interval.minutes >= 1
  /\ IntervalMinutes(interval.setting).kind = "num"
  /\ IntervalMinutes(interval.setting).v >= 1

\* the severities of the journals and of the pairs of the group
GroupSeverities ==
  {IF grp.journals[k].journalStatus \in errorStatuses THEN "critical"
   ELSE IF grp.journals[k].journalStatus \in warningStatuses THEN "warning"
   ELSE "normal" : k \in 1..Len(grp.journals)}
  \cup
  {IF {grp.pairs[k].pvolStatus, grp.pairs[k].svolStatus}
        \cap pairErrorStatuses # {} THEN "critical"
   ELSE IF {grp.pairs[k].pvolStatus, grp.pairs[k].svolStatus}
             \cap pairWarnStatuses # {} THEN "warning"
   ELSE "normal" : k \in 1..Len(grp.pairs)}

\* C23: the status of a group is critical when any journal or pair of it is
\* in an error status, else warning when any is in a warning status, else
\* normal: a function of the set of statuses, not of their order.
C23_WorstSeverity ==
  grp.done =>
    grp.overallStatus = IF "critical" \in GroupSeverities THEN "critical"
                        ELSE IF "warning" \in GroupSeverities THEN "warning"
                        ELSE "normal"

\* a journal in error after one in warning, and a pair in warning after that
C23_Witness ==
  /\ grp.done
  /\ Len(grp.journals) = 2
  /\ grp.journals[1].journalStatus \in warningStatuses
  /\ grp.journals[2].journalStatus \in errorStatuses
  /\ Len(grp.pairs) = 2
  /\ grp.pairs[2].svolStatus \in pairWarnStatuses
  /\ grp.overallStatus = "critical"

\* C24: the volume count of a group is its number of pairs when it has any,
\* and the sum of the ldev counts of its journals when it has none.
C24_VolumeCount ==
  grp.done =>
    grp.volumeCount =
      IF Len(grp.pairs) >= 1 THEN Len(grp.pairs)
      ELSE IF Len(grp.journals) = 0 THEN 0
      ELSE IF Len(grp.journals) = 1 THEN grp.journals[1].numOfLdevs
      ELSE grp.journals[1].numOfLdevs + grp.journals[2].numOfLdevs

\* no pair was found and the two journals of the group report ldevs
C24_Witness ==
  /\ grp.done
  /\ grp.pairs = <<>>
  /\ Len(grp.journals) = 2
  /\ grp.volumeCount = 4

\* the entries of a journal list that are not unused mirrors
InUse(j) == j.journalStatus # "SMPL"

\* pollStorage is past its loop over the journal list
JournalsProcessed ==
  ps.pc \in {"pairs", "ldev", "returned"} /\ ps.basic = "ok" /\ ps.detail = "ok"

\* the alerts after the thresholds were checked once for each entry, in order
RECURSIVE CheckedOnce(_, _)
CheckedOnce(rows, list) ==
  IF list = <<>> THEN rows
  ELSE CheckedOnce(CheckThresholds(rows, Head(list)), Tail(list))

\* C26: in one endpoint's cycle exactly one sample is appended and the
\* thresholds are evaluated exactly once for each journal entry whose status
\* is not SMPL, in the order of the list, and nothing is appended and no
\* alert is raised for an SMPL entry
C26_SamplePerUsedJournal ==
  JournalsProcessed =>
    LET used == SelectSeq(ps.entries, InUse)
    IN /\ Len(rpo) = ps.first + Len(used)
       /\ \A k \in 1..Len(used) :
            /\ rpo[ps.first + k].cg_id = used[k].cg
            /\ rpo[ps.first + k].journal_id = OrNull(used[k].journalId)
            /\ rpo[ps.first + k].usage_rate = OrNull(used[k].usageRate)
            /\ rpo[ps.first + k].journal_status = used[k].journalStatus
       /\ ps.checked = used
       /\ alerts = CheckedOnce(SubSeq(alerts, 1, ps.alertsBefore), used)
       /\ (used = <<>> => Len(alerts) = ps.alertsBefore)

C26_Witness ==
  /\ JournalsProcessed
  /\ Len(ps.entries) = 2
  /\ ~InUse(ps.entries[1])
  /\ InUse(ps.entries[2])
  /\ Len(rpo) = ps.first + 1
  /\ Len(alerts) > ps.alertsBefore

\* C27: in one endpoint's cycle a sample is appended or an alert raised only
\* when both the basic and the detail journal read have answered, and when
\* either read fails the call returns with no sample appended and no alert
\* raised
C27_BothJournalReads ==
  /\ (Len(rpo) > ps.first \/ Len(alerts) > ps.alertsBefore
        \/ ps.checked # <<>>)
       => ps.basic = "ok" /\ ps.detail = "ok"
  /\ (ps.basic = "failed" \/ ps.detail = "failed")
       => /\ ps.pc = "returned"
          /\ Len(rpo) = ps.first
          /\ Len(alerts) = ps.alertsBefore

C27_Witness ==
  /\ ps.pc = "returned"
  /\ ps.basic = "ok"
  /\ ps.detail = "failed"
  /\ ps.first > 0
  /\ Len(alerts) > 0
  /\ Len(rpo) = ps.first
  /\ lastOp.op = "storageJournalsFailed"

\* the steps of pollStorage whose failure is logged and ignored
BestEffortFailures == {"storageRefreshFailed", "storagePairsFailed", "ldevFailed"}

\* C28: a failed cache refresh, pair read or block-usage read never makes
\* pollStorage throw and leaves the stored samples and the alerts as they
\* are; after a failed cache refresh both journal reads are issued, and after
\* a failed block-usage read the remaining pairs are still processed, so a
\* call that returns without a failed journal or pair read has handled every
\* UR pair it was given
C28_BestEffortSteps ==
  /\ [][/\ lastOp'.op \in BestEffortFailures
             => rpo' = rpo /\ alerts' = alerts /\ ps'.pc # "thrown"
        /\ lastOp'.op = "storageRefreshFailed"
             => /\ ps'.pc = "journals"
                /\ ps'.basic = "pending"
                /\ ps'.detail = "pending"]_vars
  /\ [](ps.pc = "thrown" => ps.sessionFailed)
  /\ [](ps.pc = "returned" /\ JournalsProcessed /\ ~ps.pairsFailed
          => ps.handled = ps.urSeen)

C28_Witness ==
  /\ ps.pc = "returned"
  /\ ps.refreshFailed
  /\ ps.ldevFailed
  /\ ~ps.pairsFailed
  /\ ps.handled >= 2
  /\ Len(rpo) > ps.first
  /\ rpo[Len(rpo)].block_delta_bytes # Null

\* C29: inside a cycle the storages for which pollStorage was started are
\* exactly those up to the one whose answer is awaited, so only that one is
\* in flight, and the cycle moves to a later storage only in the step in
\* which the pollStorage call in flight returns or throws
C29_OneStorageAtATime ==
  /\ [](\A i \in ActiveCycles :
          /\ cyc[i].idx \in 1..Len(cyc[i].storages)
          /\ hist.storages = cyc[i].storages
          /\ hist.visited = SubSeq(cyc[i].storages, 1, cyc[i].idx))
  /\ [][\A i \in Invokers :
          (cyc[i].pc # "idle" /\ hist'.visited # hist.visited)
            => /\ cyc[i].pc \in {"createSession", "journals", "pairs"}
               /\ cyc'[i].pc \in {"idle", "createSession", "refresh"}
               /\ cyc'[i].pc # "idle" => cyc'[i].idx > cyc[i].idx]_vars

C29_Witness ==
  \E i \in ActiveCycles :
    /\ cyc[i].idx = 2
    /\ cyc[i].pc = "journals"
    /\ Len(hist.visited) = 2
    /\ hist.storages[1] \notin FailedStorages

\* the discoverConsistencyGroups call that settled last in this run
Settled(pc) == dcg.pc = pc /\ disc.ran # <<>>

\* C30: discoverConsistencyGroups throws only without an API configuration
\* or without a session, never because only the pair query, a copy-group
\* query or the journal query failed; an array whose discovery threw is
\* named in the errors of the run; and the loop still takes every later
\* array, whose groups are saved whatever happened to the arrays before it
C30_PerArrayIsolation ==
  /\ [](Settled("thrown") =>
          /\ dcg.noConfig \/ dcg.sessionFailed
          /\ disc.ran[Len(disc.ran)] = [e |-> dcg.e, ok |-> FALSE]
          /\ \E k \in 1..Len(disc.errors) : disc.errors[k] = dcg.e)
  /\ [](Settled("returned") =>
          /\ ~dcg.noConfig /\ ~dcg.sessionFailed
          /\ disc.ran[Len(disc.ran)] = [e |-> dcg.e, ok |-> TRUE]
          /\ \A k \in 1..Len(disc.errors) : disc.errors[k] # dcg.e)
  /\ [](disc.errors = FailedArrays)
  /\ [](disc.pc = "arrays" =>
          RanStorages = SubSeq(disc.storages, 1, Len(disc.ran)))
  /\ [](disc.pc = "returned" => RanStorages = disc.storages)
  /\ [][lastOp'.op \in {"groupsJournals", "groupsJournalsFailed"}
          /\ lastOp'.arg > 0
          => /\ db'.saved.source = dcg.e
             /\ db'.saved.groups = dcg'.groups
             /\ \E i \in 1..Len(db'.consistency_groups) :
                  db'.consistency_groups[i].source_storage_id = dcg.e]_vars

\* the first array had no session; the second one's pair query failed, and
\* its groups, found through the journals, were saved
C30_Witness ==
  /\ disc.pc = "returned"
  /\ disc.storages = <<"A", "B">>
  /\ disc.errors = <<"A">>
  /\ dcg.pc = "returned"
  /\ dcg.e = "B"
  /\ dcg.pairsFailed
  /\ ~dcg.journalsFailed
  /\ db.saved.source = "B"
  /\ Len(dcg.groups) > 0

\* the sum of field f over the entries 1..n of a list
RECURSIVE SumField(_, _, _)
SumField(list, f, n) ==
  IF n = 0 THEN 0 ELSE SumField(list, f, n - 1) + list[n][f]

\* the largest value of field f in a non-empty list
MaxField(list, f) ==
  CHOOSE m \in {list[i][f] : i \in 1..Len(list)} :
    \A i \in 1..Len(list) : list[i][f] <= m

\* C31: for every list of volume metrics aggregateGroupRpo returns the
\* maximum usage rate and the maximum estimated seconds over the volumes and
\* the sums of the pending bytes and of qCount; every reordering of the list
\* gives the same result, and the empty list gives zeros with severity normal
C31_AggregateMaxAndSum ==
  calc.done =>
    LET v == calc.volumes
        g == calc.group
    IN /\ g.volumeCount = Len(v)
       /\ v = <<>> => g = EmptyGroupRpo
       /\ v # <<>> =>
            /\ g.worstUsageRate = MaxField(v, "usageRate")
            /\ g.worstEstimatedRpoSeconds = MaxField(v, "estimatedRpoSeconds")
       /\ g.totalPendingDataBytes = SumField(v, "pendingDataBytes", Len(v))
       /\ g.totalQCount = SumField(v, "qCount", Len(v))
       /\ \A p \in Permutations(1..Len(v)) :
            AggregateGroupRpo([i \in 1..Len(v) |-> v[p[i]]]) = g

\* the worst volume comes first
C31_Witness ==
  /\ calc.done
  /\ Len(calc.volumes) = 2
  /\ calc.volumes[1].usageRate > calc.volumes[2].usageRate
  /\ calc.volumes[1].estimatedRpoSeconds < calc.volumes[2].estimatedRpoSeconds
  /\ calc.group.worstUsageRate = 20
  /\ calc.group.totalQCount = 4

\* the sum of the entries 1..n of a list of numbers
RECURSIVE SumTo(_, _)
SumTo(h, n) == IF n = 0 THEN 0 ELSE SumTo(h, n - 1) + h[n]

\* n * n times the sum over the readings of (x - mean x) * (y - mean y), the
\* x being the sample indices 0..n-1
RECURSIVE Covariance(_, _, _)
Covariance(h, n, k) ==
  IF k = 0 THEN 0
  ELSE Covariance(h, n, k - 1)
         + (n * (k - 1) - SumTo([i \in 1..n |-> i - 1], n))
           * (n * h[k] - SumTo(h, n))

\* n * n times the sum over the sample indices of (x - mean x) squared
RECURSIVE Variance(_, _)
Variance(n, k) ==
  IF k = 0 THEN 0
  ELSE Variance(n, k - 1)
         + (n * (k - 1) - SumTo([i \in 1..n |-> i - 1], n))
           * (n * (k - 1) - SumTo([i \in 1..n |-> i - 1], n))

\* C32: determineTrend answers increasing when the least-squares slope of
\* the readings over the sample index, divided by their mean, is above 0.05,
\* decreasing when it is below -0.05 and stable otherwise; fewer than 2
\* readings, equal readings and readings of mean 0 are stable, with rate 0
\* for fewer than 2 readings
C32_TrendBySlopeOverMean ==
  calc.done =>
    LET h   == calc.history
        n   == Len(h)
        t   == calc.trend
        sum == SumTo(h, n)
        cov == Covariance(h, n, n)
        var == Variance(n, n)
    IN /\ t.dataPoints = n
       /\ n < 2 => t.trend = "stable" /\ t.changeRate = 0
       /\ (\A i \in 1..n : h[i] = h[1]) => t.trend = "stable"
       /\ sum = 0 => t.trend = "stable"
       /\ (n >= 2 /\ sum > 0) =>
            \* slope / mean = (cov / var) / (sum / n), and 0.05 = 1 / 20
            t.trend = IF 20 * cov * n > var * sum THEN "increasing"
                      ELSE IF 20 * cov * n < -(var * sum) THEN "decreasing"
                      ELSE "stable"

C32_Witness ==
  /\ calc.done
  /\ calc.history = <<100, 200, 300, 400, 500>>
  /\ calc.trend.trend = "increasing"
  /\ calc.trend.changeRate = 3333

\* C33: each endpoint has at most one pending renewal timer, and every
\* pending timer is the one of the endpoint's current cache entry
C33_OneTimerPerEntry ==
  /\ \A e \in Endpoints : Cardinality({t \in timers : t.e = e}) <= 1
  /\ \A t \in timers : /\ sessions[t.e] # NoSession
                       /\ sessions[t.e].renewalTimer = t.id

\* the sessions whose token a pollStorage call in flight sends its requests
\* with
HeldSessions ==
  {cyc[i].session : i \in {j \in Invokers :
                             cyc[j].pc \in {"refresh", "journals", "pairs"}}}

\* C34: a renewal never asks the array to delete a session whose token a
\* pollStorage call in flight is still using
C34_HeldTokenNotDeleted ==
  \A r \in renewals : r.pc = "deleting" => r.old \notin HeldSessions

\* C35: when cleanupAllSessions returns after a getSession call ran beside
\* it, and no getSession call or renewal is left in flight, the cache is
\* empty, no renewal timer is pending, and the deletion of every session the
\* cache held was asked of the array
C35_NothingSurvivesCleanup ==
  [][(/\ cleanup.pc = "waiting"
      /\ lastOp'.op = "cleanupReturn"
      /\ \A c \in Callers : calls'[c].pc = "idle"
      /\ renewals' = {})
       => /\ \A e \in Endpoints : sessions'[e] = NoSession
          /\ timers' = {}
          /\ \A e \in Endpoints :
               sessions[e] # NoSession
                 => sessions[e].sessionId \in cleanup.asked]_vars

\* C36: when destroySession(e) returns, the cache holds no entry for e and
\* no renewal timer of e is pending, whether the deletion succeeded or not,
\* and the step leaves the entries and timers of every other endpoint as
\* they were; also when a getSession(e) call ran while the deletion was
\* awaited
C36_DestroyLeavesNothing ==
  [][lastOp'.op = "destroyReturn" =>
       /\ sessions'[lastOp'.e] = NoSession
       /\ \A t \in timers' : t.e # lastOp'.e
       /\ \A e \in Endpoints \ {lastOp'.e} :
            /\ sessions'[e] = sessions[e]
            /\ {t \in timers' : t.e = e} = {t \in timers : t.e = e}]_vars

\* how a cycle that passed the guard ends
CycleEnds == {"cycleEnd", "cycleNoConfig", "cycleNoStorages", "cycleThrew"}

\* C37: on every exit path of a cycle (no API configuration, no
\* authenticated storage, an exception, normal completion) the guard is
\* released, so after a cycle has ended no cycle is in progress and a call
\* of pollCycle is skipped only while another cycle really is in flight
C37_GuardReleased ==
  /\ [](lastOp.op \in CycleEnds => ~isPolling /\ ActiveCycles = {})
  /\ [](isPolling <=> ActiveCycles # {})
  /\ [][lastOp'.op = "pollSkipped" => isPolling /\ ActiveCycles # {}]_vars
  /\ [][lastOp.op \in CycleEnds => lastOp'.op # "pollSkipped"]_vars

\* a cycle ended in an exception after an earlier cycle had completed, and
\* the guard is free
C37_Witness ==
  /\ lastOp.op = "cycleThrew"
  /\ ~isPolling
  /\ ActiveCycles = {}
  /\ lastPollTime # NoTime
  /\ lastPollError = <<"exception">>
  /\ cronJob

\* C38: at most one collection timer is scheduled at any time: startPolling
\* while a timer exists schedules nothing, stopPolling leaves no timer, so
\* that a timer-started cycle begins only while a timer exists, and changing
\* the interval while a timer exists leaves exactly one timer, whose interval
\* is the new one.
C38_OneTimer ==
  /\ [](interval.jobs <= 1 /\ (cronJob <=> interval.jobs = 1))
  /\ [][/\ lastOp'.op = "startPollingNoop" => interval' = interval
        /\ lastOp'.op = "stopPolling" => interval'.jobs = 0 /\ cyc' = cyc
        /\ cyc'["cron"] # cyc["cron"] /\ cyc["cron"].pc = "idle" => cronJob
        /\ (cronJob /\ interval'.setting # interval.setting
              /\ lastOp'.op # "putSettings")
             => /\ interval'.jobs = 1
                /\ interval'.setting.kind = "num"
                /\ interval'.minutes * 60 = interval'.setting.v]_vars

\* C39: within one run of the loop every request has a larger headLdevId
\* than the request before it, whatever batches the array answers with.
C39_CursorIncreases ==
  \A i \in 2..Len(pager.heads) : pager.heads[i] > pager.heads[i - 1]

\* C40: every row stored for a journal entry holds the journal id and the
\* usage rate computed for that entry unchanged, 0 included, and is a row
\* the block-delta UPDATE can select, that is, its journal id is not NULL.
C40_ZeroStoredAsZero ==
  JournalsProcessed =>
    LET used == SelectSeq(ps.entries, InUse)
    IN \A k \in 1..Len(used) :
         ps.first + k <= Len(rpo) =>
           /\ rpo[ps.first + k].journal_id = used[k].journalId
           /\ rpo[ps.first + k].usage_rate = used[k].usageRate
           /\ rpo[ps.first + k].journal_id # Null

====
